---- MODULE Spec2Model ----
(***************************************************************************)
(* Verification model of the questionnaire editor's conditional rule      *)
(* engine (src/pages/02_Editor.py): the group <-> tree converter, the     *)
(* group labelling helpers, rule evaluation and the rule-builder session  *)
(* state kept across Streamlit reruns.                                     *)
(*                                                                         *)
(* Python values are modelled as follows.                                  *)
(*   dict   a function whose DOMAIN is the set of keys (a TLA+ record);    *)
(*          the empty dict is the empty function                           *)
(*   list   a sequence                                                     *)
(*   str    dict keys, operators and field names are TLA+ strings; text    *)
(*          that the code strips, formats or searches (labels, answers)    *)
(*          is a sequence of one-character strings                         *)
(*   answer / clause values are tagged records [type, val]                 *)
(***************************************************************************)
EXTENDS Integers, Sequences, FiniteSets, TLC

VARIABLES
    rule,        \* converter pipeline: the rule tree handed to _rule_to_groups
    parsed,      \* converter pipeline: result of _rule_to_groups(rule)
    rebuilt,     \* converter pipeline: result of _groups_to_rule on parsed
    answers,     \* answer map used by the last evaluation
    verdict,     \* <<eval_rule(rule, answers), eval_rule(rebuilt, answers)>>
    stage,       \* position in the pipeline
    pass,        \* how many times the rule went through the converter
    builder_groups, \* label machine: a builder group list (target_state["groups"])
    prev_groups, \* label machine: the group list before the last operation
    new_label,   \* label machine: label returned by the last _generate_group_label
    label_op,    \* label machine: the last operation on the group list
    schema_rules,  \* editor page: show_if of the active question, logic of the active risk
    builder_state, \* editor page: the builder state stored for that question and that risk
    json_text,     \* editor page: text of the question's "Show if (JSON)" area
    json_override, \* editor page: pending override of that text, None when there is none
    schema,        \* questionnaire schema: its questions and its risks
    report,        \* schema machine: what the last operation returned or displayed
    schema_op,     \* schema machine: the last operation on the schema
    edits,         \* schema machine: how many editor forms were submitted
    raw_doc        \* normalizer: the stored document that was loaded;
                   \* aggregator: the submissions and the system asked for

convVars == <<rule, parsed, rebuilt, answers, verdict, stage, pass>>

labelVars == <<builder_groups, prev_groups, new_label, label_op>>

builderVars == <<schema_rules, builder_state, json_text, json_override>>

schemaVars == <<schema, report, schema_op, edits, raw_doc>>

vars == <<convVars, labelVars, builderVars, schemaVars>>

-----------------------------------------------------------------------------
(* Bounds                                                                  *)

\* largest number of nodes (clauses and all/any nodes) of an input rule tree
MaxNodes == 5

\* how many times a rule is decomposed and recomposed in a row
MaxPasses == 2

\* longest group list handed directly to _groups_to_rule
MaxGroupList == 3

\* largest number of risks of a stored questionnaire
MaxRisks == 2

\* largest number of questions of a questionnaire in the editor
MaxQuestions == 3

\* how many editor forms are submitted in a row
MaxEdits == 2

\* largest number of submissions handed to aggregate_risks_for_system
MaxAssessments == 2

\* versions of a form that are written to GitHub
MaxVersions == 3

\* runs of the questionnaire page
MaxRuns == 5

\* longest group list handed to _ensure_group_labels with arbitrary labels
MaxRawGroups == 2

\* longest group list the label operations grow
MaxLabelGroups == 3

\* most groups the rule builders are driven to
MaxBuilderGroups == 1

\* most clauses per group the rule builders are driven to
MaxBuilderClauses == 2

\* largest number of nodes of a rule tree handed to the evaluators
MaxEvalNodes == 3

\* longest child list of a node of arbitrary shape handed to eval_rule
MaxShapeItems == 2

-----------------------------------------------------------------------------
(* Python data helpers                                                     *)

EmptyDict == [k \in {} |-> TRUE]

None == [type |-> "NoneType", val |-> "None"]

PyBool(b) == [type |-> "bool", val |-> b]

PyStr(s) == [type |-> "str", val |-> s]

PyList(l) == [type |-> "list", val |-> l]

Get(d, k, default) == IF k \in DOMAIN d THEN d[k] ELSE default

Put(d, k, v) == [x \in DOMAIN d \cup {k} |-> IF x = k THEN v ELSE d[x]]

Pop(d, k) == [x \in DOMAIN d \ {k} |-> d[x]]

\* bool(value) replaced by the test `value is True`
Truthy_identity(v) == v.type = "bool" /\ v.val

\* bool(value) of a tagged Python value
Truthy(v) ==
    CASE v.type = "NoneType" -> FALSE
      [] v.type = "bool" -> v.val
      [] v.type = "str" -> Len(v.val) > 0
      [] v.type = "list" -> Len(v.val) > 0

\* a == b that takes None for unequal to everything
PyEq_none_unequal(a, b) == a.type # "NoneType" /\ a.type = b.type /\ a.val = b.val

\* a == b on tagged Python values
PyEq(a, b) == a.type = b.type /\ a.val = b.val

SeqFilter(s, Keep(_)) == SelectSeq(s, Keep)

SeqMap(s, F(_)) == SubSeq([i \in 1..Len(s) |-> F(s[i])], 1, Len(s))

Range(s) == {s[i] : i \in 1..Len(s)}

\* the element of a one-element set: Only({e : x \in {v}}) is e with the local
\* x bound to the value v, computed once
Only(S) == CHOOSE x \in S : TRUE

-----------------------------------------------------------------------------
(* Group <-> tree converter                                                *)

_is_clause_rule(value) ==
    /\ "operator" \in DOMAIN value
    /\ "all" \notin DOMAIN value
    /\ "any" \notin DOMAIN value

NormalizeGroup(group) ==
    LET g1 == IF Get(group, "mode", "") \notin {"all", "any"}
              THEN Put(group, "mode", "all") ELSE group
        g2 == IF "clauses" \notin DOMAIN g1 THEN Put(g1, "clauses", <<>>) ELSE g1
    IN  Pop(g2, "connector")

_normalize_groups(groups) == SeqMap(groups, NormalizeGroup)

\* _extract_group with the single-child test loosened to "at least one child":
\* the remaining children are dropped instead of making the rule unsupported
RECURSIVE _extract_group_first_child(_)
_extract_group_first_child(node) ==
    IF _is_clause_rule(node)
    THEN [mode |-> "all", clauses |-> <<node>>]
    ELSE LET key == IF "all" \in DOMAIN node THEN "all"
                    ELSE IF "any" \in DOMAIN node THEN "any"
                    ELSE "none"
         IN  IF key = "none"
             THEN None
             ELSE LET items == node[key]
                  IN  IF \A i \in 1..Len(items) : _is_clause_rule(items[i])
                      THEN [mode |-> key, clauses |-> items]
                      ELSE IF Len(items) >= 1
                           THEN _extract_group_first_child(items[1])
                           ELSE None

\* _extract_group, the helper nested in _rule_to_groups
RECURSIVE _extract_group(_)
_extract_group(node) ==
    IF _is_clause_rule(node)
    THEN [mode |-> "all", clauses |-> <<node>>]
    ELSE LET key == IF "all" \in DOMAIN node THEN "all"
                    ELSE IF "any" \in DOMAIN node THEN "any"
                    ELSE "none"
         IN  IF key = "none"
             THEN None
             ELSE LET items == node[key]
                  IN  IF \A i \in 1..Len(items) : _is_clause_rule(items[i])
                      THEN [mode |-> key, clauses |-> items]
                      ELSE IF Len(items) = 1
                           THEN _extract_group(items[1])
                           ELSE None

\* _rule_to_groups that forgets the top key and always reports combine_mode all
_rule_to_groups_combine_all(r) ==
    IF DOMAIN r = {}
    THEN [groups |-> <<>>, combine_mode |-> "all"]
    ELSE LET potential_group == _extract_group(r)
             top_key == IF "all" \in DOMAIN r THEN "all"
                        ELSE IF "any" \in DOMAIN r THEN "any"
                        ELSE "none"
         IN  IF potential_group # None
             THEN [groups |-> <<potential_group>>, combine_mode |-> "all"]
             ELSE IF top_key = "none"
                  THEN None
                  ELSE LET items == r[top_key]
                       IN  IF \E i \in 1..Len(items) : _extract_group(items[i]) = None
                           THEN None
                           ELSE [groups |-> _normalize_groups(
                                               [i \in 1..Len(items) |-> _extract_group(items[i])]),
                                 combine_mode |-> "all"]

_rule_to_groups(r) ==
    IF DOMAIN r = {}
    THEN [groups |-> <<>>, combine_mode |-> "all"]
    ELSE LET potential_group == _extract_group(r)
             top_key == IF "all" \in DOMAIN r THEN "all"
                        ELSE IF "any" \in DOMAIN r THEN "any"
                        ELSE "none"
         IN  IF potential_group # None
             THEN [groups |-> <<potential_group>>, combine_mode |-> "all"]
             ELSE IF top_key = "none"
                  THEN None
                  ELSE LET items == r[top_key]
                       IN  IF \E i \in 1..Len(items) : _extract_group(items[i]) = None
                           THEN None
                           ELSE [groups |-> _normalize_groups(
                                               [i \in 1..Len(items) |-> _extract_group(items[i])]),
                                 combine_mode |-> top_key]

IsTruthyDict(d) == DOMAIN d # {}

_group_to_rule(group) ==
    LET mode == Get(group, "mode", "all")
        clauses == SeqFilter(Get(group, "clauses", <<>>), IsTruthyDict)
        fixed == IF mode \notin {"all", "any"} THEN "all" ELSE mode
    IN  IF clauses = <<>> THEN EmptyDict ELSE [k \in {fixed} |-> clauses]

HasClauses(group) == Len(Get(group, "clauses", <<>>)) > 0

Reverse(q) == [i \in 1..Len(q) |-> q[Len(q) + 1 - i]]

\* _groups_to_rule that wraps a single remaining group as well
_groups_to_rule_always_wrap(groups, combine_mode) ==
    LET normalized == _normalize_groups(SeqFilter(groups, HasClauses))
        cm == IF combine_mode \in {"all", "any"} THEN combine_mode ELSE "all"
        rendered_groups == SeqFilter(SeqMap(normalized, _group_to_rule), IsTruthyDict)
    IN  IF normalized = <<>> \/ rendered_groups = <<>>
        THEN EmptyDict
        ELSE [k \in {cm} |-> rendered_groups]

\* _groups_to_rule that inserts each rendering at the front instead of appending
_groups_to_rule_prepend(groups, combine_mode) ==
    LET normalized == _normalize_groups(SeqFilter(groups, HasClauses))
        cm == IF combine_mode \in {"all", "any"} THEN combine_mode ELSE "all"
        rendered_groups == Reverse(SeqFilter(SeqMap(normalized, _group_to_rule), IsTruthyDict))
    IN  IF normalized = <<>> \/ rendered_groups = <<>>
        THEN EmptyDict
        ELSE IF Len(rendered_groups) = 1
             THEN rendered_groups[1]
             ELSE [k \in {cm} |-> rendered_groups]

_groups_to_rule(groups, combine_mode) ==
    LET normalized == _normalize_groups(SeqFilter(groups, HasClauses))
        cm == IF combine_mode \in {"all", "any"} THEN combine_mode ELSE "all"
        rendered_groups == SeqFilter(SeqMap(normalized, _group_to_rule), IsTruthyDict)
    IN  IF normalized = <<>> \/ rendered_groups = <<>>
        THEN EmptyDict
        ELSE IF Len(rendered_groups) = 1
             THEN rendered_groups[1]
             ELSE [k \in {cm} |-> rendered_groups]

-----------------------------------------------------------------------------
(* Group labels                                                            *)

RECURSIVE LStrip(_)
LStrip(s) == IF s # <<>> /\ Head(s) = " " THEN LStrip(Tail(s)) ELSE s

RECURSIVE RStrip(_)
RStrip(s) == IF s # <<>> /\ s[Len(s)] = " " THEN RStrip(SubSeq(s, 1, Len(s) - 1)) ELSE s

\* str.strip()
Strip(s) == RStrip(LStrip(s))

DigitChars == <<"0", "1", "2", "3", "4", "5", "6", "7", "8", "9">>

RECURSIVE IntToStr(_)
\* str(n) for n >= 0
IntToStr(n) ==
    IF n < 10 THEN <<DigitChars[n + 1]>>
    ELSE IntToStr(n \div 10) \o <<DigitChars[(n % 10) + 1]>>

\* f"{base} ({n})"
WithSuffix(base, n) == base \o <<" ", "(">> \o IntToStr(n) \o <<")">>

\* f"Group {index}"
GroupN(index) == <<"G", "r", "o", "u", "p", " ">> \o IntToStr(index)

\* default of the base_label parameter of _generate_group_label
NEW_RULE_GROUP == <<"N", "e", "w", " ", "r", "u", "l", "e", " ", "g", "r", "o", "u", "p">>

\* str(group.get("label", "")).strip()
StrippedLabel(group) == Strip(Get(group, "label", <<>>))

RECURSIVE FirstFreeSuffix(_, _, _)
\* the while True loop of _generate_group_label
FirstFreeSuffix(base_label, suffix, used_labels) ==
    IF WithSuffix(base_label, suffix) \notin used_labels
    THEN WithSuffix(base_label, suffix)
    ELSE FirstFreeSuffix(base_label, suffix + 1, used_labels)

_generate_group_label(gs, base_label) ==
    LET used_labels == {StrippedLabel(gs[i]) : i \in 1..Len(gs)} \ {<<>>}
    IN  IF base_label \notin used_labels
        THEN base_label
        ELSE FirstFreeSuffix(base_label, 2, used_labels)

\* the while loop of _ensure_group_labels numbering the first duplicate 2
RECURSIVE Disambiguate_from_two(_, _, _, _)
Disambiguate_from_two(base_label, duplicate_index, label, used_labels) ==
    IF label \in DOMAIN used_labels
    THEN Disambiguate_from_two(base_label, duplicate_index + 1,
                               WithSuffix(base_label, duplicate_index + 2), used_labels)
    ELSE <<label, duplicate_index>>

RECURSIVE Disambiguate(_, _, _, _)
\* the while loop of _ensure_group_labels; returns <<label, duplicate_index>>
Disambiguate(base_label, duplicate_index, label, used_labels) ==
    IF label \in DOMAIN used_labels
    THEN Disambiguate(base_label, duplicate_index + 1,
                      WithSuffix(base_label, duplicate_index + 1), used_labels)
    ELSE <<label, duplicate_index>>

RECURSIVE EnsureFrom(_, _, _)
\* the for loop of _ensure_group_labels from position index on
EnsureFrom(gs, index, used_labels) ==
    IF index > Len(gs) THEN gs
    ELSE LET raw_label == StrippedLabel(gs[index])
             base_label == IF raw_label # <<>> THEN raw_label ELSE GroupN(index)
             found == Disambiguate(base_label, Get(used_labels, base_label, 0),
                                   base_label, used_labels)
             used1 == Put(used_labels, base_label, found[2])
             used2 == Put(used1, found[1], 0)
         IN  EnsureFrom([gs EXCEPT ![index] = Put(gs[index], "label", found[1])],
                        index + 1, used2)

\* _ensure_group_labels without the duplicate test: every group gets its base label
_ensure_group_labels_base_only(gs) ==
    [index \in 1..Len(gs) |->
        Put(gs[index], "label",
            IF StrippedLabel(gs[index]) # <<>> THEN StrippedLabel(gs[index]) ELSE GroupN(index))]

_ensure_group_labels(gs) == EnsureFrom(gs, 1, EmptyDict)

-----------------------------------------------------------------------------
(* Rule evaluation (editor preview)                                        *)

IsSubstring(p, s) ==
    \E i \in 0..(Len(s) - Len(p)) : SubSeq(s, i + 1, i + Len(p)) = p

\* `x in lst` that looks at the first item of the list only
InList_first_only(x, lst) == x.type = "str" /\ lst # <<>> /\ x.val = lst[1]

\* `x in lst` for a tagged value x and a list of strings
InList(x, lst) == x.type = "str" /\ x.val \in Range(lst)

eval_clause(clause, ans) ==
    LET operator == Get(clause, "operator", "equals")
        has_field == "field" \in DOMAIN clause
        expected == Get(clause, "value", None)
        value == IF has_field THEN Get(ans, clause.field, None) ELSE None
        expected_values == IF expected.type = "list"
                           THEN SeqMap(expected.val, PyStr)
                           ELSE <<expected>>
    IN  IF ~has_field /\ operator # "always" THEN FALSE
        ELSE CASE operator = "always" -> TRUE
               [] operator = "equals" -> PyEq(value, expected)
               [] operator = "not_equals" -> ~PyEq(value, expected)
               [] operator = "includes" ->
                    IF value.type = "NoneType" THEN FALSE
                    ELSE IF value.type = "list" THEN InList(expected, value.val)
                    ELSE PyEq(value, expected)
               [] operator = "not_includes" ->
                    IF value.type = "NoneType" THEN TRUE
                    ELSE IF value.type = "list" THEN ~InList(expected, value.val)
                    ELSE ~PyEq(value, expected)
               [] operator = "any_selected" ->
                    /\ value.type = "list"
                    /\ expected.type = "list"
                    /\ \E i \in 1..Len(expected.val) : expected.val[i] \in Range(value.val)
               [] operator = "contains_any" ->
                    IF expected.type = "NoneType" THEN FALSE
                    ELSE IF value.type = "str"
                         THEN \E i \in 1..Len(expected_values) :
                                 /\ expected_values[i].type = "str"
                                 /\ IsSubstring(expected_values[i].val, value.val)
                         ELSE IF value.type = "list"
                              THEN \E i \in 1..Len(expected_values) :
                                      InList(expected_values[i], value.val)
                              ELSE FALSE
               [] operator = "all_selected" ->
                    /\ value.type = "list"
                    /\ expected.type = "list"
                    /\ \A i \in 1..Len(expected.val) : expected.val[i] \in Range(value.val)
               [] operator = "is_true" -> Truthy(value)
               [] operator = "is_false" -> ~Truthy(value)
               [] OTHER -> FALSE

\* eval_rule that takes an any node without children for true
RECURSIVE eval_rule_empty_any_true(_, _)
eval_rule_empty_any_true(r, ans) ==
    IF DOMAIN r = {} THEN TRUE
    ELSE IF "all" \in DOMAIN r
         THEN \A i \in 1..Len(r.all) : eval_rule_empty_any_true(r.all[i], ans)
         ELSE IF "any" \in DOMAIN r
              THEN \/ r.any = <<>>
                   \/ \E i \in 1..Len(r.any) : eval_rule_empty_any_true(r.any[i], ans)
              ELSE eval_clause(r, ans)

\* eval_rule of the editor's preview
RECURSIVE eval_rule(_, _)
eval_rule(r, ans) ==
    IF DOMAIN r = {} THEN TRUE
    ELSE IF "all" \in DOMAIN r
         THEN \A i \in 1..Len(r.all) : eval_rule(r.all[i], ans)
         ELSE IF "any" \in DOMAIN r
              THEN \E i \in 1..Len(r.any) : eval_rule(r.any[i], ans)
              ELSE eval_clause(r, ans)

\* eval_clause of the questionnaire runner (src/pages/01_Questionnaire.py)
runner_eval_clause(clause, ans) ==
    LET operator == Get(clause, "operator", "equals")
        has_field == "field" \in DOMAIN clause
        expected == Get(clause, "value", None)
        value == IF has_field THEN Get(ans, clause.field, None) ELSE None
        expected_values == IF expected.type = "list"
                           THEN SeqMap(expected.val, PyStr)
                           ELSE <<expected>>
    IN  IF ~has_field /\ operator # "always" THEN FALSE
        ELSE CASE operator = "always" -> TRUE
               [] operator = "equals" -> PyEq(value, expected)
               [] operator = "not_equals" -> ~PyEq(value, expected)
               [] operator = "includes" ->
                    IF value.type = "NoneType" THEN FALSE
                    ELSE IF value.type = "list" THEN InList(expected, value.val)
                    ELSE PyEq(value, expected)
               [] operator = "not_includes" ->
                    IF value.type = "NoneType" THEN TRUE
                    ELSE IF value.type = "list" THEN ~InList(expected, value.val)
                    ELSE ~PyEq(value, expected)
               [] operator = "any_selected" ->
                    /\ value.type = "list"
                    /\ expected.type = "list"
                    /\ \E i \in 1..Len(expected.val) : expected.val[i] \in Range(value.val)
               [] operator = "contains_any" ->
                    IF expected.type = "NoneType" THEN FALSE
                    ELSE IF value.type = "str"
                         THEN \E i \in 1..Len(expected_values) :
                                 /\ expected_values[i].type = "str"
                                 /\ IsSubstring(expected_values[i].val, value.val)
                         ELSE IF value.type = "list"
                              THEN \E i \in 1..Len(expected_values) :
                                      InList(expected_values[i], value.val)
                              ELSE FALSE
               [] operator = "all_selected" ->
                    /\ value.type = "list"
                    /\ expected.type = "list"
                    /\ \A i \in 1..Len(expected.val) : expected.val[i] \in Range(value.val)
               [] operator = "is_true" -> Truthy(value)
               [] operator = "is_false" -> ~Truthy(value)
               [] OTHER -> FALSE

\* the st.warning messages of one eval_clause call
eval_clause_warnings(clause) ==
    LET operator == Get(clause, "operator", "equals")
    IN  IF "field" \notin DOMAIN clause /\ operator # "always"
        THEN <<"Rule clause missing 'field'.">>
        ELSE IF operator \in {"always", "equals", "not_equals", "includes",
                              "not_includes", "any_selected", "contains_any",
                              "all_selected", "is_true", "is_false"}
             THEN <<>>
             ELSE <<"Unsupported operator">>

\* eval_rule that leaves a clause that draws a warning out of its all/any node
RECURSIVE runner_eval_rule_skips_malformed(_, _)
runner_eval_rule_skips_malformed(r, ans) ==
    IF DOMAIN r = {} THEN TRUE
    ELSE IF "all" \in DOMAIN r
         THEN \A i \in 1..Len(r.all) :
                 \/ _is_clause_rule(r.all[i]) /\ eval_clause_warnings(r.all[i]) # <<>>
                 \/ runner_eval_rule_skips_malformed(r.all[i], ans)
         ELSE IF "any" \in DOMAIN r
              THEN \E i \in 1..Len(r.any) :
                      /\ ~(_is_clause_rule(r.any[i]) /\ eval_clause_warnings(r.any[i]) # <<>>)
                      /\ runner_eval_rule_skips_malformed(r.any[i], ans)
              ELSE runner_eval_clause(r, ans)

RECURSIVE runner_eval_rule(_, _)
\* eval_rule of the questionnaire runner
runner_eval_rule(r, ans) ==
    IF DOMAIN r = {} THEN TRUE
    ELSE IF "all" \in DOMAIN r
         THEN \A i \in 1..Len(r.all) : runner_eval_rule(r.all[i], ans)
         ELSE IF "any" \in DOMAIN r
              THEN \E i \in 1..Len(r.any) : runner_eval_rule(r.any[i], ans)
              ELSE runner_eval_clause(r, ans)

RECURSIVE eval_children_warnings(_, _, _, _)
RECURSIVE eval_rule_warnings(_, _)
\* the warnings of all(...) (stop_at = FALSE) or any(...) (stop_at = TRUE) over
\* the children from position i on: the generator is not advanced past the
\* first child whose value is stop_at
eval_children_warnings(items, i, ans, stop_at) ==
    IF i > Len(items) THEN <<>>
    ELSE eval_rule_warnings(items[i], ans)
         \o (IF runner_eval_rule(items[i], ans) = stop_at THEN <<>>
             ELSE eval_children_warnings(items, i + 1, ans, stop_at))

\* the st.warning messages of one eval_rule call, in order
eval_rule_warnings(r, ans) ==
    IF DOMAIN r = {} THEN <<>>
    ELSE IF "all" \in DOMAIN r THEN eval_children_warnings(r.all, 1, ans, FALSE)
    ELSE IF "any" \in DOMAIN r THEN eval_children_warnings(r.any, 1, ans, TRUE)
    ELSE eval_clause_warnings(r)


-----------------------------------------------------------------------------
(* Converter pipeline: a rule is decomposed, recomposed, evaluated and     *)
(* fed back, as the builder does on every render of a supported rule.      *)

\* values of the variables of a machine that a specification does not use
LabelsIdle ==
    /\ builder_groups = <<>>
    /\ prev_groups = <<>>
    /\ new_label = <<>>
    /\ label_op = "idle"

ConvIdle ==
    /\ rule = EmptyDict
    /\ parsed = None
    /\ rebuilt = EmptyDict
    /\ answers = EmptyDict
    /\ verdict = <<TRUE, TRUE>>
    /\ stage = "idle"
    /\ pass = 1

BuilderIdle ==
    /\ schema_rules = [show_if |-> EmptyDict, logic |-> EmptyDict]
    /\ builder_state = [show_if |-> EmptyDict, logic |-> EmptyDict]
    /\ json_text = [kind |-> "unset"]
    /\ json_override = None

SchemaIdle ==
    /\ schema = [questions |-> <<>>, risks |-> <<>>]
    /\ report = <<>>
    /\ schema_op = "idle"
    /\ edits = 0
    /\ raw_doc = None

ClauseA == [field |-> "a", operator |-> "is_true"]

ClauseB == [field |-> "b", operator |-> "equals", value |-> PyStr(<<"x">>)]

Clauses == {ClauseA, ClauseB}

RECURSIVE TreesOfSize(_), Forests(_)
\* rule trees with exactly n nodes
TreesOfSize(n) ==
    IF n = 0 THEN {}
    ELSE (IF n = 1 THEN Clauses ELSE {})
         \cup {[all |-> f] : f \in Forests(n - 1)}
         \cup {[any |-> f] : f \in Forests(n - 1)}

\* child lists whose trees have m nodes in total
Forests(m) ==
    IF m = 0 THEN {<<>>}
    ELSE UNION {{<<t>> \o f : t \in TreesOfSize(k), f \in Forests(m - k)} : k \in 1..m}

RuleTrees == {EmptyDict} \cup UNION {TreesOfSize(n) : n \in 1..MaxNodes}

AnswerMaps ==
    {da @@ db : da \in {EmptyDict, [a |-> PyBool(TRUE)], [a |-> PyBool(FALSE)]},
                db \in {EmptyDict, [b |-> PyStr(<<"x">>)], [b |-> PyStr(<<"y">>)]}}

InitConv ==
    /\ rule \in RuleTrees
    /\ parsed = None
    /\ rebuilt = EmptyDict
    /\ answers = EmptyDict
    /\ verdict = <<TRUE, TRUE>>
    /\ stage = "loaded"
    /\ pass = 1
    /\ LabelsIdle
    /\ BuilderIdle
    /\ SchemaIdle

RuleToGroups ==
    /\ stage = "loaded"
    /\ parsed' = _rule_to_groups(rule)
    /\ stage' = "decomposed"
    /\ UNCHANGED <<rule, rebuilt, answers, verdict, pass>>
    /\ UNCHANGED <<labelVars, builderVars, schemaVars>>

GroupsToRule ==
    /\ stage = "decomposed"
    /\ parsed # None
    /\ rebuilt' = _groups_to_rule(parsed.groups, parsed.combine_mode)
    /\ stage' = "composed"
    /\ UNCHANGED <<rule, parsed, answers, verdict, pass>>
    /\ UNCHANGED <<labelVars, builderVars, schemaVars>>

EvalRule(a) ==
    /\ stage = "composed"
    /\ answers' = a
    /\ verdict' = <<eval_rule(rule, a), eval_rule(rebuilt, a)>>
    /\ stage' = "evaluated"
    /\ UNCHANGED <<rule, parsed, rebuilt, pass>>
    /\ UNCHANGED <<labelVars, builderVars, schemaVars>>

\* the recomposed rule is what the next render decomposes
Reload ==
    /\ stage = "composed"
    /\ pass < MaxPasses
    /\ rule' = rebuilt
    /\ stage' = "loaded"
    /\ pass' = pass + 1
    /\ UNCHANGED <<parsed, rebuilt, answers, verdict>>
    /\ UNCHANGED <<labelVars, builderVars, schemaVars>>

NextConv ==
    \/ RuleToGroups
    \/ GroupsToRule
    \/ \E a \in AnswerMaps : EvalRule(a)
    \/ Reload

SpecConv == InitConv /\ [][NextConv]_vars


(* Composition alone: _groups_to_rule on arbitrary builder group lists,    *)
(* including empty groups, missing or invalid modes and an invalid         *)
(* combine mode.                                                           *)

GroupLabel == <<"G">>

InputGroups ==
    {[mode |-> m, clauses |-> c, label |-> GroupLabel] :
        m \in {"all", "any", "xor"}, c \in {<<>>, <<ClauseA>>, <<ClauseB, ClauseA>>}}
    \cup {[clauses |-> c, label |-> GroupLabel] : c \in {<<>>, <<ClauseA>>, <<ClauseB, ClauseA>>}}

RECURSIVE SeqsUpTo(_, _)
SeqsUpTo(S, n) ==
    IF n = 0 THEN {<<>>}
    ELSE SeqsUpTo(S, n - 1) \cup {Append(q, x) : q \in {t \in SeqsUpTo(S, n - 1) : Len(t) = n - 1}, x \in S}

InitCompose ==
    /\ rule = EmptyDict
    /\ parsed \in {[groups |-> g, combine_mode |-> cm] :
                      g \in SeqsUpTo(InputGroups, MaxGroupList), cm \in {"all", "any", "xor"}}
    /\ rebuilt = EmptyDict
    /\ answers = EmptyDict
    /\ verdict = <<TRUE, TRUE>>
    /\ stage = "decomposed"
    /\ pass = 1
    /\ LabelsIdle
    /\ BuilderIdle
    /\ SchemaIdle

NextCompose == GroupsToRule

SpecCompose == InitCompose /\ [][NextCompose]_vars

-----------------------------------------------------------------------------
(* Label machine: a group list with arbitrary labels is labelled by        *)
(* _ensure_group_labels and then edited with the builder's add, delete and *)
(* rename handlers and re-synchronised, as render_show_if_builder does.    *)

LabelA == <<"A">>

RawLabels == {<<" ">>, LabelA, <<" ", "A">>, WithSuffix(LabelA, 1), GroupN(1)}

RawGroups ==
    {[mode |-> "all", clauses |-> <<ClauseA>>, label |-> l] : l \in RawLabels}
    \cup {[mode |-> "all", clauses |-> <<ClauseA>>]}

\* text typed into the "Group title" input
TitleInputs == {<<>>, <<"A", " ">>}

InitLabels ==
    /\ builder_groups \in SeqsUpTo(RawGroups, MaxRawGroups)
    /\ prev_groups = <<>>
    /\ new_label = <<>>
    /\ label_op = "init"
    /\ ConvIdle
    /\ BuilderIdle
    /\ SchemaIdle

\* sync_*_builder_state on a rule it cannot parse: the stored groups are kept,
\* normalised and labelled
EnsureLabels ==
    /\ label_op = "init"
    /\ builder_groups' = _ensure_group_labels(_normalize_groups(builder_groups))
    /\ prev_groups' = builder_groups
    /\ label_op' = "ensure"
    /\ UNCHANGED new_label
    /\ UNCHANGED <<convVars, builderVars, schemaVars>>

\* "Add rule group"
AddGroup(base_label) ==
    /\ label_op # "init"
    /\ Len(builder_groups) < MaxLabelGroups
    /\ LET label == _generate_group_label(builder_groups, base_label)
           new_group == [mode |-> "all", clauses |-> <<[operator |-> "always"]>>, label |-> label]
       IN  /\ new_label' = label
           /\ builder_groups' = _ensure_group_labels(_normalize_groups(Append(builder_groups, new_group)))
    /\ prev_groups' = builder_groups
    /\ label_op' = "add"
    /\ UNCHANGED <<convVars, builderVars, schemaVars>>

RemoveAt(q, i) == SubSeq(q, 1, i - 1) \o SubSeq(q, i + 1, Len(q))

\* "Delete group" on the selected group
DeleteGroup(selected_group_index) ==
    /\ label_op # "init"
    /\ selected_group_index \in 1..Len(builder_groups)
    /\ builder_groups' = _ensure_group_labels(_normalize_groups(RemoveAt(builder_groups, selected_group_index)))
    /\ prev_groups' = builder_groups
    /\ label_op' = "delete"
    /\ UNCHANGED new_label
    /\ UNCHANGED <<convVars, builderVars, schemaVars>>

\* the "Group title" text input of the selected group
RenameGroup(selected_group_index, entered_label) ==
    /\ label_op # "init"
    /\ selected_group_index \in 1..Len(builder_groups)
    /\ LET labelled == _ensure_group_labels(_normalize_groups(builder_groups))
           current_label == labelled[selected_group_index].label
           sanitized_label == IF Strip(entered_label) # <<>> THEN Strip(entered_label)
                              ELSE GroupN(selected_group_index)
           duplicate == \E idx \in 1..Len(labelled) :
                            idx # selected_group_index /\ labelled[idx].label = sanitized_label
       IN  builder_groups' = IF sanitized_label # current_label /\ ~duplicate
                     THEN _ensure_group_labels(
                              [labelled EXCEPT ![selected_group_index] =
                                  Put(@, "label", sanitized_label)])
                     ELSE labelled
    /\ prev_groups' = builder_groups
    /\ label_op' = "rename"
    /\ UNCHANGED new_label
    /\ UNCHANGED <<convVars, builderVars, schemaVars>>

\* sync_*_builder_state on a rule it can parse: the groups are rebuilt from the
\* rule the builder wrote, and labelled afresh
Resync ==
    /\ label_op \notin {"init", "resync"}
    /\ LET parsed_state == _rule_to_groups(_groups_to_rule(builder_groups, "all"))
       IN  builder_groups' = _ensure_group_labels(_normalize_groups(parsed_state.groups))
    /\ prev_groups' = builder_groups
    /\ label_op' = "resync"
    /\ UNCHANGED new_label
    /\ UNCHANGED <<convVars, builderVars, schemaVars>>

NextLabels ==
    \/ EnsureLabels
    \/ \E base_label \in {NEW_RULE_GROUP} : AddGroup(base_label)
    \/ \E i \in 1..MaxLabelGroups : DeleteGroup(i)
    \/ \E i \in 1..MaxLabelGroups, t \in TitleInputs : RenameGroup(i, t)
    \/ Resync

SpecLabels == InitLabels /\ [][NextLabels]_vars

-----------------------------------------------------------------------------
(* Rule builders of the editor page: the conditional-display builder of    *)
(* the active question and the risk-logic builder of the active risk.      *)
(* The questionnaire has the questions "a" (bool) and "b" (single choice   *)
(* with option "x"), which the clauses ClauseA and ClauseB refer to.       *)

\* default of the base_label argument in render_risk_rule_builder
NEW_RISK_RULE_GROUP ==
    <<"N", "e", "w", " ", "r", "i", "s", "k", " ", "r", "u", "l", "e", " ", "g", "r", "o", "u", "p">>

\* sync_show_if_builder_state that forgets the groups of a rule it cannot parse
sync_show_if_builder_state_discard(existing_state, show_if) ==
    Only({
        LET unsupported == show_if # EmptyDict /\ parsed_state = None
            groups == IF unsupported THEN <<>>
                      ELSE parsed_state.groups
            combine_mode == IF unsupported THEN "all"
                            ELSE parsed_state.combine_mode
        IN  Only({
                LET active_group == Get(existing_state, "active_group",
                                        IF labelled = <<>> THEN -1 ELSE 0)
                IN  [groups |-> labelled,
                     combine_mode |-> IF combine_mode \in {"all", "any"}
                                      THEN combine_mode ELSE "all",
                     active_group |-> IF labelled = <<>> THEN -1
                                      ELSE IF active_group \in 0..(Len(labelled) - 1)
                                           THEN active_group
                                      ELSE 0,
                     unsupported |-> unsupported]
                : labelled \in {_ensure_group_labels(_normalize_groups(groups))}})
        : parsed_state \in {IF show_if # EmptyDict THEN _rule_to_groups(show_if)
                            ELSE [groups |-> <<>>, combine_mode |-> "all"]}})

\* the entry sync_show_if_builder_state stores for one question
sync_show_if_builder_state(existing_state, show_if) ==
    Only({
        LET unsupported == show_if # EmptyDict /\ parsed_state = None
            groups == IF unsupported THEN Get(existing_state, "groups", <<>>)
                      ELSE parsed_state.groups
            combine_mode == IF unsupported THEN Get(existing_state, "combine_mode", "all")
                            ELSE parsed_state.combine_mode
        IN  Only({
                LET active_group == Get(existing_state, "active_group",
                                        IF labelled = <<>> THEN -1 ELSE 0)
                IN  [groups |-> labelled,
                     combine_mode |-> IF combine_mode \in {"all", "any"}
                                      THEN combine_mode ELSE "all",
                     active_group |-> IF labelled = <<>> THEN -1
                                      ELSE IF active_group \in 0..(Len(labelled) - 1)
                                           THEN active_group
                                      ELSE 0,
                     unsupported |-> unsupported]
                : labelled \in {_ensure_group_labels(_normalize_groups(groups))}})
        : parsed_state \in {IF show_if # EmptyDict THEN _rule_to_groups(show_if)
                            ELSE [groups |-> <<>>, combine_mode |-> "all"]}})

\* the entry sync_risk_builder_state stores for one risk
sync_risk_builder_state(existing_state, logic) ==
    Only({
        LET unsupported == logic # EmptyDict /\ parsed_state = None
            groups == IF unsupported THEN Get(existing_state, "groups", <<>>)
                      ELSE parsed_state.groups
            combine_mode == IF unsupported THEN Get(existing_state, "combine_mode", "all")
                            ELSE parsed_state.combine_mode
        IN  Only({
                LET active_group == Get(existing_state, "active_group",
                                        IF labelled = <<>> THEN -1 ELSE 0)
                IN  [groups |-> labelled,
                     combine_mode |-> IF combine_mode \in {"all", "any"}
                                      THEN combine_mode ELSE "all",
                     active_group |-> IF labelled = <<>> THEN -1
                                      ELSE IF active_group \in 0..(Len(labelled) - 1)
                                           THEN active_group
                                      ELSE 0,
                     unsupported |-> unsupported]
                : labelled \in {_ensure_group_labels(_normalize_groups(groups))}})
        : parsed_state \in {IF logic # EmptyDict THEN _rule_to_groups(logic)
                            ELSE [groups |-> <<>>, combine_mode |-> "all"]}})

\* The locals of a builder render are kept in a record L: groups,
\* combine_mode and active_group are the fields of target_state, rule_expression
\* is the rule stored on the question or risk, rerun tells that the render
\* ended in _rerun_app().

\* _sync_question_rule / _sync_risk_rule
WriteBack(L) == [L EXCEPT !.rule_expression = _groups_to_rule(L.groups, L.combine_mode)]

\* a supported render up to its first write-back
StartRender(target_state, stored_rule) ==
    Only({
        LET combine_mode == IF target_state.combine_mode \in {"all", "any"}
                            THEN target_state.combine_mode ELSE "all"
            active_group_index == IF groups = <<>> THEN -1
                                  ELSE IF target_state.active_group \in 0..(Len(groups) - 1)
                                       THEN target_state.active_group
                                       ELSE 0
        IN  [groups |-> groups, combine_mode |-> combine_mode,
             active_group |-> active_group_index,
             rule_expression |-> _groups_to_rule(groups, combine_mode), rerun |-> FALSE]
        : groups \in {_ensure_group_labels(_normalize_groups(target_state.groups))}})

\* the "Choose a rule group to edit" selectbox
SelectedGroupIndex(L, ev) ==
    IF L.groups = <<>> THEN -1
    ELSE IF ev.name = "select_group" /\ ev.index \in 0..(Len(L.groups) - 1) THEN ev.index
    ELSE L.active_group

\* "Add rule group"
AddGroupStep(L, base_label) ==
    LET new_group == [mode |-> "all", clauses |-> <<[operator |-> "always"]>>,
                      label |-> _generate_group_label(L.groups, base_label)]
    IN  Only({[L EXCEPT !.groups = groups, !.active_group = Len(groups) - 1,
                        !.rule_expression = _groups_to_rule(groups, L.combine_mode),
                        !.rerun = TRUE]
              : groups \in {_ensure_group_labels(_normalize_groups(
                                Append(L.groups, new_group)))}})

\* the radio that combines the groups, shown for two or more groups
CombineStep(L, ev) ==
    IF Len(L.groups) > 1 /\ ev.name = "set_combine" /\ ev.mode # L.combine_mode
    THEN WriteBack([L EXCEPT !.combine_mode = ev.mode])
    ELSE L

\* L with the group at selected_group_index replaced by group
SetGroup(L, selected_group_index, group) ==
    [L EXCEPT !.groups = [L.groups EXCEPT ![selected_group_index + 1] = group]]

\* the "Group title" input: the widget state is reset to the current label
\* whenever it differs from it, before the input is read
RenameStep(L, selected_group_index, ev) ==
    LET current_label == L.groups[selected_group_index + 1].label
        stored_label == IF ev.name = "rename" THEN ev.text ELSE current_label
        entered_label == IF stored_label # current_label THEN current_label ELSE stored_label
        sanitized_label == IF Strip(entered_label) # <<>> THEN Strip(entered_label)
                           ELSE GroupN(selected_group_index + 1)
        duplicate == \E idx \in 1..Len(L.groups) :
                         idx # selected_group_index + 1 /\ L.groups[idx].label = sanitized_label
    IN  IF sanitized_label # current_label /\ ~duplicate
        THEN LET renamed == SetGroup(L, selected_group_index,
                                     Put(L.groups[selected_group_index + 1],
                                         "label", sanitized_label))
             IN  [renamed EXCEPT !.groups = _ensure_group_labels(renamed.groups)]
        ELSE L

\* the radio that sets the mode of the selected group
ModeStep(L, selected_group_index, ev) ==
    IF ev.name = "set_mode" /\ ev.mode # L.groups[selected_group_index + 1].mode
    THEN WriteBack(SetGroup(L, selected_group_index,
                            Put(L.groups[selected_group_index + 1], "mode", ev.mode)))
    ELSE L

\* "Delete group"
DeleteStep(L, selected_group_index) ==
    Only({
        LET new_index == IF groups # <<>>
                         THEN (IF selected_group_index < Len(groups) - 1
                               THEN selected_group_index ELSE Len(groups) - 1)
                         ELSE -1
        IN  [L EXCEPT !.groups = groups, !.active_group = new_index,
                      !.rule_expression = _groups_to_rule(groups, L.combine_mode),
                      !.rerun = TRUE]
        : groups \in {_ensure_group_labels(_normalize_groups(
                          RemoveAt(L.groups, selected_group_index + 1)))}})

\* "Remove clause" on clause idx of the selected group
RemoveClauseStep(L, selected_group_index, idx) ==
    LET active_group == L.groups[selected_group_index + 1]
        popped == Put(active_group, "clauses", RemoveAt(active_group.clauses, idx + 1))
    IN  WriteBack([SetGroup(L, selected_group_index, popped) EXCEPT !.rerun = TRUE])

\* "Add condition"
AddClauseStep(L, selected_group_index, clause) ==
    LET active_group == L.groups[selected_group_index + 1]
        appended == Put(active_group, "clauses", Append(active_group.clauses, clause))
    IN  WriteBack(SetGroup(L, selected_group_index, appended))

\* "Clear all rules" / "Clear all logic": target_state gets a new empty list,
\* the write-back still reads the list the render started with
ClearStep(L) ==
    [groups |-> <<>>, combine_mode |-> "all", active_group |-> -1,
     rule_expression |-> _groups_to_rule(L.groups, "all"), rerun |-> TRUE]

\* what a render leaves behind: the stored rule, the builder state, and
\* whether a write-back happened and whether the run was restarted
EndRender(L) ==
    [rule_expression |-> L.rule_expression,
     state |-> [groups |-> L.groups, combine_mode |-> L.combine_mode,
                active_group |-> L.active_group, unsupported |-> FALSE],
     written |-> TRUE,
     rerun |-> L.rerun]

\* the widgets of the selected group from the clause list on: "Remove
\* clause", "Add condition" and the clear button
RenderClauses(L4, selected_group_index, ev) ==
    IF /\ ev.name = "remove_clause"
       /\ ev.idx \in 0..(Len(L4.groups[selected_group_index + 1].clauses) - 1)
    THEN Only({EndRender(L) : L \in {RemoveClauseStep(L4, selected_group_index, ev.idx)}})
    ELSE Only({IF ev.name = "clear"
               THEN Only({EndRender(L) : L \in {ClearStep(L5)}})
               ELSE EndRender(L5)
               : L5 \in {IF ev.name = "add_clause"
                         THEN AddClauseStep(L4, selected_group_index, ev.clause)
                         ELSE L4}})

\* the widgets of the selected group: title, mode, "Delete group", "Save
\* changes", then the clauses
RenderGroup(L2, selected_group_index, ev) ==
    Only({IF ev.name = "delete_group"
          THEN Only({EndRender(L) : L \in {DeleteStep(L3, selected_group_index)}})
          ELSE Only({RenderClauses(L4, selected_group_index, ev)
                     : L4 \in {IF ev.name = "save_group" THEN WriteBack(L3) ELSE L3}})
          : L3 \in {ModeStep(RenameStep(L2, selected_group_index, ev),
                             selected_group_index, ev)}})

\* the widgets above the selected group: "Add rule group" and the radio that
\* combines the groups; nothing more is drawn when no group is selected
RenderWidgets(L1, ev, base_label) ==
    IF ev.name = "add_group"
    THEN Only({EndRender(L) : L \in {AddGroupStep(L1, base_label)}})
    ELSE Only({IF L1.active_group = -1 THEN EndRender(L2)
               ELSE RenderGroup(L2, L1.active_group, ev)
               : L2 \in {CombineStep(L1, ev)}})

\* the part of a builder render after the test of the unsupported flag
RenderSupported(target_state, stored_rule, ev, base_label) ==
    Only({Only({RenderWidgets(L1, ev, base_label)
                : L1 \in {[L0 EXCEPT !.active_group = SelectedGroupIndex(L0, ev)]}})
          : L0 \in {StartRender(target_state, stored_rule)}})

\* render_show_if_builder without the early return on the unsupported flag
render_show_if_builder_no_guard(existing_state, show_if, ev) ==
    Only({RenderSupported(target_state, show_if, ev, NEW_RULE_GROUP)
          : target_state \in {sync_show_if_builder_state(existing_state, show_if)}})

render_show_if_builder(existing_state, show_if, ev) ==
    Only({IF target_state.unsupported
          THEN [rule_expression |-> show_if, state |-> target_state,
                written |-> FALSE, rerun |-> FALSE]
          ELSE RenderSupported(target_state, show_if, ev, NEW_RULE_GROUP)
          : target_state \in {sync_show_if_builder_state(existing_state, show_if)}})

render_risk_rule_builder(existing_state, logic, ev) ==
    Only({IF target_state.unsupported
          THEN [rule_expression |-> logic, state |-> target_state,
                written |-> FALSE, rerun |-> FALSE]
          ELSE RenderSupported(target_state, logic, ev, NEW_RISK_RULE_GROUP)
          : target_state \in {sync_risk_builder_state(existing_state, logic)}})

\* Text of the "Show if (JSON)" area.  json.dumps wraps a tree into a text,
\* json.loads unwraps it; a text can also be blank or not be JSON at all.
Unset == [kind |-> "unset"]

BlankText == [kind |-> "blank"]

InvalidText == [kind |-> "invalid"]

Dumps(tree) == [kind |-> "json", tree |-> tree]

\* json.dumps(show_if, indent=2) if show_if else ""
TextOf(show_if) == IF show_if # EmptyDict THEN Dumps(show_if) ELSE BlankText

parse_show_if(raw) ==
    IF raw.kind = "blank" THEN None
    ELSE IF raw.kind = "json" THEN raw.tree
    ELSE None

Idle == [name |-> "idle"]

\* render_question_editor on the active question Q, a record of its show_if,
\* its builder state, and the text and pending override of its JSON area
render_question_editor(Q, ev) ==
    LET typed == IF ev.name \in {"save_form", "form_rejected"} THEN ev.text ELSE Q.json_text
        text == IF typed = Unset THEN TextOf(Q.show_if) ELSE typed
        show_if_raw == IF Q.json_override # None THEN Q.json_override ELSE text
        rejected == \/ ev.name = "form_rejected"
                    \/ ev.name = "save_form" /\ show_if_raw.kind = "invalid"
        show_if == IF ev.name = "save_form"
                   THEN (IF parse_show_if(show_if_raw) # None
                         THEN parse_show_if(show_if_raw) ELSE EmptyDict)
                   ELSE Q.show_if
    IN  IF rejected
        THEN [show_if |-> Q.show_if, state |-> Q.state, json_text |-> show_if_raw,
              json_override |-> None, rerun |-> FALSE]
        ELSE Only({[show_if |-> B.rule_expression, state |-> B.state,
                    json_text |-> show_if_raw,
                    json_override |-> IF B.written THEN TextOf(B.rule_expression)
                                      ELSE None,
                    rerun |-> B.rerun]
                   : B \in {render_show_if_builder(
                                Q.state, show_if,
                                IF ev.name = "save_form" THEN Idle ELSE ev)}})

\* rules of the active question and the active risk in the loaded schema
UnsupportedRule ==
    [all |-> <<[any |-> <<[all |-> <<ClauseA>>], [all |-> <<ClauseB>>]>>],
               [all |-> <<ClauseA>>]>>]

TwoGroupsRule == [any |-> <<[all |-> <<ClauseA>>], [all |-> <<ClauseB>>]>>]

LoadedRules == {EmptyDict, ClauseA, TwoGroupsRule, UnsupportedRule}

\* texts typed into the JSON area
TypedTexts ==
    {BlankText, InvalidText, Dumps([all |-> <<ClauseB>>]), Dumps(UnsupportedRule)}

\* the longest group list a builder shows: the two groups of TwoGroupsRule, or
\* as many as "Add rule group" is allowed to build
MostGroups == IF MaxBuilderGroups > 2 THEN MaxBuilderGroups ELSE 2

\* text typed into the "Group title" input of a builder
TypedTitles == {<<"A", " ">>}

\* clauses the "Add condition" widgets can build
NewClauses == {ClauseB}

\* the schema is loaded; nothing has been rendered yet
Init ==
    /\ schema_rules \in [show_if : LoadedRules, logic : {UnsupportedRule}]
    /\ builder_state = [show_if |-> EmptyDict, logic |-> EmptyDict]
    /\ json_text = Unset
    /\ json_override = None
    /\ ConvIdle
    /\ LabelsIdle
    /\ SchemaIdle

\* one pass over the two editors; the risk editor is not reached when the
\* question builder restarts the run
EditorPass(Q, logic, risk_state, kind, ev) ==
    Only({IF Q1.rerun
          THEN [Q |-> Q1, logic |-> logic, risk_state |-> risk_state, rerun |-> TRUE]
          ELSE Only({[Q |-> Q1, logic |-> R1.rule_expression, risk_state |-> R1.state,
                      rerun |-> R1.rerun]
                     : R1 \in {render_risk_rule_builder(
                                   risk_state, logic,
                                   IF kind = "logic" THEN ev ELSE Idle)}})
          : Q1 \in {render_question_editor(Q, IF kind = "show_if" THEN ev ELSE Idle)}})

\* main(): one run of the page on the event ev of the builder kind, followed
\* by the run that _rerun_app() starts
PageRun(kind, ev) ==
    \E Q \in {[show_if |-> schema_rules.show_if, state |-> builder_state.show_if,
                json_text |-> json_text, json_override |-> json_override]} :
    \E P1 \in {EditorPass(Q, schema_rules.logic, builder_state.logic, kind, ev)} :
    \E P2 \in {IF P1.rerun
                THEN EditorPass([show_if |-> P1.Q.show_if, state |-> P1.Q.state,
                                 json_text |-> P1.Q.json_text,
                                 json_override |-> P1.Q.json_override],
                                P1.logic, P1.risk_state, "none", Idle)
                ELSE P1} :
        /\ schema_rules' = [show_if |-> P2.Q.show_if, logic |-> P2.logic]
        /\ builder_state' = [show_if |-> P2.Q.state, logic |-> P2.risk_state]
        /\ json_text' = P2.Q.json_text
        /\ json_override' = P2.Q.json_override
        /\ UNCHANGED <<convVars, labelVars, schemaVars>>

\* the builder state the next render of a builder starts from
Synced(kind) ==
    IF kind = "show_if"
    THEN sync_show_if_builder_state(builder_state.show_if, schema_rules.show_if)
    ELSE sync_risk_builder_state(builder_state.logic, schema_rules.logic)

\* the last run drew the widgets of the builder
WidgetsShown(kind) ==
    IF kind = "show_if"
    THEN json_override # None
    ELSE builder_state.logic # EmptyDict /\ ~builder_state.logic.unsupported

\* the last run drew the widgets of the selected group
GroupShown(kind) == WidgetsShown(kind) /\ Synced(kind).groups # <<>>

SelectedGroup(kind) == Synced(kind).groups[Synced(kind).active_group + 1]

\* a run that no builder widget and no form caused
IdleRun == PageRun("none", Idle)

\* "Save changes" of the question form with the JSON area holding text
SaveQuestionForm(text) ==
    /\ json_text # Unset
    /\ PageRun("show_if", [name |-> "save_form", text |-> text])

\* "Save changes" of the question form stopped by a validation error, the
\* JSON area left as it was shown
RejectQuestionForm ==
    /\ json_text # Unset
    /\ PageRun("show_if", [name |-> "form_rejected", text |-> json_text])

ClickAddGroup(kind) ==
    /\ WidgetsShown(kind)
    /\ Len(Synced(kind).groups) < MaxBuilderGroups
    /\ PageRun(kind, [name |-> "add_group"])

ChooseCombine(kind, mode) ==
    /\ WidgetsShown(kind)
    /\ Len(Synced(kind).groups) > 1
    /\ mode # Synced(kind).combine_mode
    /\ PageRun(kind, [name |-> "set_combine", mode |-> mode])

ChooseGroup(kind, index) ==
    /\ GroupShown(kind)
    /\ index \in 0..(Len(Synced(kind).groups) - 1)
    /\ index # Synced(kind).active_group
    /\ PageRun(kind, [name |-> "select_group", index |-> index])

TypeGroupTitle(kind, text) ==
    /\ GroupShown(kind)
    /\ PageRun(kind, [name |-> "rename", text |-> text])

ChooseGroupMode(kind, mode) ==
    /\ GroupShown(kind)
    /\ mode # SelectedGroup(kind).mode
    /\ PageRun(kind, [name |-> "set_mode", mode |-> mode])

ClickDeleteGroup(kind) ==
    /\ GroupShown(kind)
    /\ PageRun(kind, [name |-> "delete_group"])

ClickSaveGroup(kind) ==
    /\ GroupShown(kind)
    /\ PageRun(kind, [name |-> "save_group"])

ClickRemoveClause(kind, idx) ==
    /\ GroupShown(kind)
    /\ idx \in 0..(Len(SelectedGroup(kind).clauses) - 1)
    /\ PageRun(kind, [name |-> "remove_clause", idx |-> idx])

ClickAddCondition(kind, clause) ==
    /\ GroupShown(kind)
    /\ Len(SelectedGroup(kind).clauses) < MaxBuilderClauses
    /\ PageRun(kind, [name |-> "add_clause", clause |-> clause])

ClickClear(kind) ==
    /\ GroupShown(kind)
    /\ PageRun(kind, [name |-> "clear"])

\* the user works on the question: its form and its rule builder
Next ==
    \/ \E text \in TypedTexts \cup {json_text} : SaveQuestionForm(text)
    \/ RejectQuestionForm
    \/ ClickAddGroup("show_if")
    \/ \E mode \in {"all", "any"} : ChooseCombine("show_if", mode)
    \/ \E index \in 0..(MostGroups - 1) : ChooseGroup("show_if", index)
    \/ \E text \in TypedTitles : TypeGroupTitle("show_if", text)
    \/ \E mode \in {"all", "any"} : ChooseGroupMode("show_if", mode)
    \/ ClickDeleteGroup("show_if")
    \/ ClickSaveGroup("show_if")
    \/ \E idx \in 0..(MaxBuilderClauses - 1) : ClickRemoveClause("show_if", idx)
    \/ \E clause \in NewClauses : ClickAddCondition("show_if", clause)
    \/ ClickClear("show_if")
    \/ IdleRun

Spec == Init /\ [][Next]_vars

\* the schema is loaded with a question that is always shown
InitRisk ==
    /\ schema_rules \in [show_if : {EmptyDict}, logic : LoadedRules]
    /\ builder_state = [show_if |-> EmptyDict, logic |-> EmptyDict]
    /\ json_text = Unset
    /\ json_override = None
    /\ ConvIdle
    /\ LabelsIdle
    /\ SchemaIdle

\* the user works on the rule builder of the risk
NextRisk ==
    \/ ClickAddGroup("logic")
    \/ \E mode \in {"all", "any"} : ChooseCombine("logic", mode)
    \/ \E index \in 0..(MostGroups - 1) : ChooseGroup("logic", index)
    \/ \E text \in TypedTitles : TypeGroupTitle("logic", text)
    \/ \E mode \in {"all", "any"} : ChooseGroupMode("logic", mode)
    \/ ClickDeleteGroup("logic")
    \/ ClickSaveGroup("logic")
    \/ \E idx \in 0..(MaxBuilderClauses - 1) : ClickRemoveClause("logic", idx)
    \/ \E clause \in NewClauses : ClickAddCondition("logic", clause)
    \/ ClickClear("logic")
    \/ IdleRun

SpecRisk == InitRisk /\ [][NextRisk]_vars

-----------------------------------------------------------------------------
(* Rule evaluation: a rule is evaluated against an answer map by the       *)
(* runner's and by the editor's evaluator.  Answers are what the runner's  *)
(* widgets store: nothing, a bool, a text or a list of option texts.       *)

\* operators a stored clause can name: the ten the evaluator knows, one it
\* does not know, and no operator at all
ClauseOperators ==
    {"always", "equals", "not_equals", "includes", "not_includes", "any_selected",
     "contains_any", "all_selected", "is_true", "is_false", "bogus", "missing"}

\* values a stored clause can carry; NoValue stands for a clause without the key
NoValue == [type |-> "absent", val |-> "absent"]

ClauseValues ==
    {NoValue, None, PyStr(<<"x">>), PyStr(<<>>), PyBool(TRUE), PyList(<<<<"x">>>>)}

\* the clause with the given field ("missing": no field), operator and value
MakeClause(field, operator, value) ==
    LET c1 == IF field = "missing" THEN EmptyDict ELSE [field |-> field]
        c2 == IF operator = "missing" THEN c1 ELSE Put(c1, "operator", operator)
    IN  IF value = NoValue THEN c2 ELSE Put(c2, "value", value)

SingleClauses ==
    {MakeClause(f, o, v) : f \in {"a", "missing"}, o \in ClauseOperators,
                           v \in ClauseValues} \ {EmptyDict}

\* leaves of the trees: two sound clauses, a clause without field, a clause
\* with an unknown operator, and the always clause
NoFieldClause == [operator |-> "equals", value |-> PyStr(<<"x">>)]

BadOperatorClause == [field |-> "a", operator |-> "bogus"]

AlwaysClause == [operator |-> "always"]

EvalLeaves == {ClauseA, ClauseB, NoFieldClause, BadOperatorClause, AlwaysClause}

RECURSIVE EvalTreesOfSize(_), EvalForests(_)
\* rule trees over EvalLeaves with exactly n nodes
EvalTreesOfSize(n) ==
    IF n = 0 THEN {}
    ELSE (IF n = 1 THEN EvalLeaves ELSE {})
         \cup {[all |-> f] : f \in EvalForests(n - 1)}
         \cup {[any |-> f] : f \in EvalForests(n - 1)}

\* child lists whose trees have m nodes in total
EvalForests(m) ==
    IF m = 0 THEN {<<>>}
    ELSE UNION {{<<t>> \o f : t \in EvalTreesOfSize(k), f \in EvalForests(m - k)}
                : k \in 1..m}

EvalRules ==
    {EmptyDict} \cup SingleClauses \cup UNION {EvalTreesOfSize(n) : n \in 1..MaxEvalNodes}

\* answers to question "a" (any widget) and question "b" (single choice)
EvalAnswerMaps ==
    {da @@ db :
        da \in {EmptyDict} \cup
               {[a |-> v] : v \in {PyBool(TRUE), PyBool(FALSE), PyStr(<<>>),
                                   PyStr(<<"x">>), PyStr(<<"x", "y">>), PyList(<<>>),
                                   PyList(<<<<"x">>>>), PyList(<<<<"y">>, <<"x">>>>)}},
        db \in {EmptyDict, [b |-> PyStr(<<"x">>)]}}

InitEval ==
    /\ rule \in EvalRules
    /\ parsed = None
    /\ rebuilt = EmptyDict
    /\ answers = EmptyDict
    /\ verdict = <<TRUE, TRUE>>
    /\ stage = "loaded"
    /\ pass = 1
    /\ LabelsIdle
    /\ BuilderIdle
    /\ SchemaIdle

\* the rule is evaluated against the answers a by both evaluators
Evaluate(a) ==
    /\ stage = "loaded"
    /\ answers' = a
    /\ verdict' = [runner |-> runner_eval_rule(rule, a),
                   editor |-> eval_rule(rule, a),
                   warnings |-> eval_rule_warnings(rule, a)]
    /\ stage' = "evaluated"
    /\ UNCHANGED <<rule, parsed, rebuilt, pass>>
    /\ UNCHANGED <<labelVars, builderVars, schemaVars>>

NextEval == \E a \in EvalAnswerMaps : Evaluate(a)

SpecEval == InitEval /\ [][NextEval]_vars

-----------------------------------------------------------------------------
(* Evaluation of rules of any shape.  A rule loaded from JSON need not be  *)
(* a dict of clauses and lists: here every node is a tagged value          *)
(*   [type |-> "dict", val |-> d]   d a clause, or a dict whose all / any  *)
(*                                  key holds a tagged value               *)
(*   [type |-> "list", val |-> s]   s a sequence of tagged values          *)
(*   [type |-> "str",  val |-> s]   s a sequence of characters             *)
(*   [type |-> "int",  val |-> n]   and None                               *)
(* and an evaluation ends in "True", "False" or the name of the exception  *)
(* that leaves the call.                                                   *)

DictObj(d) == [type |-> "dict", val |-> d]

ListObj(items) == [type |-> "list", val |-> items]

IntObj(n) == [type |-> "int", val |-> n]

\* `not obj`
Falsy(obj) ==
    CASE obj.type = "NoneType" -> TRUE
      [] obj.type = "dict" -> obj.val = EmptyDict
      [] obj.type = "int" -> obj.val = 0
      [] obj.type \in {"list", "str"} -> obj.val = <<>>

\* the characters of the keys the evaluator looks for
KeyChars(key) == IF key = "all" THEN <<"a", "l", "l">> ELSE <<"a", "n", "y">>

\* `key in obj` for key "all" or "any": key lookup in a dict, substring test
\* in a text, item test in a list, TypeError otherwise
KeyIn(key, obj) ==
    CASE obj.type = "dict" -> IF key \in DOMAIN obj.val THEN "True" ELSE "False"
      [] obj.type = "str" -> IF IsSubstring(KeyChars(key), obj.val) THEN "True" ELSE "False"
      [] obj.type = "list" ->
            IF \E i \in 1..Len(obj.val) : obj.val[i] = PyStr(KeyChars(key))
            THEN "True" ELSE "False"
      [] OTHER -> "TypeError"

\* the items a generator expression draws from obj: the items of a list, the
\* characters of a text
ItemsOf(obj) ==
    IF obj.type = "list" THEN obj.val
    ELSE [i \in 1..Len(obj.val) |-> PyStr(<<obj.val[i]>>)]

\* eval_clause on any node: only a dict has .get
eval_clause_outcome(obj, ans) ==
    IF obj.type # "dict" THEN "AttributeError"
    ELSE IF runner_eval_clause(obj.val, ans) THEN "True" ELSE "False"

RECURSIVE eval_rule_outcome(_, _)
RECURSIVE all_outcome(_, _, _)
RECURSIVE any_outcome(_, _, _)
\* all(eval_rule(subrule, answers) for subrule in items), from item i on
all_outcome(items, i, ans) ==
    IF i > Len(items) THEN "True"
    ELSE Only({IF o = "True" THEN all_outcome(items, i + 1, ans) ELSE o
               : o \in {eval_rule_outcome(items[i], ans)}})

\* any(eval_rule(subrule, answers) for subrule in items), from item i on
any_outcome(items, i, ans) ==
    IF i > Len(items) THEN "False"
    ELSE Only({IF o = "False" THEN any_outcome(items, i + 1, ans) ELSE o
               : o \in {eval_rule_outcome(items[i], ans)}})

\* eval_rule on any node
eval_rule_outcome(obj, ans) ==
    IF Falsy(obj) THEN "True"
    ELSE IF KeyIn("all", obj) = "TypeError" THEN "TypeError"
    ELSE IF KeyIn("all", obj) = "True" \/ KeyIn("any", obj) = "True"
         THEN IF obj.type # "dict" THEN "AttributeError"
              ELSE LET key == IF KeyIn("all", obj) = "True" THEN "all" ELSE "any"
                       items == obj.val[key]
                   IN  IF items.type \notin {"list", "str"} THEN "TypeError"
                       ELSE IF key = "all" THEN all_outcome(ItemsOf(items), 1, ans)
                       ELSE any_outcome(ItemsOf(items), 1, ans)
    ELSE eval_clause_outcome(obj, ans)

\* nodes that are no all/any node: clauses, texts, numbers, lists, None
ShapeLeaves ==
    {DictObj(ClauseA), DictObj([field |-> "a", operator |-> "is_false"]),
     DictObj(EmptyDict), None, IntObj(0), IntObj(5), PyStr(<<>>), PyStr(<<"a", "b">>),
     PyStr(<<"a", "l", "l">>), ListObj(<<>>), ListObj(<<PyStr(<<"x">>)>>)}

RECURSIVE ObjLists(_, _)
\* the lists of at most n items drawn from the set
ObjLists(items, n) ==
    IF n = 0 THEN {<<>>}
    ELSE ObjLists(items, n - 1)
         \cup {Append(l, x) : l \in ObjLists(items, n - 1), x \in items}

\* what an all or any key can hold over the children: a list of them, or no
\* list at all
ShapeContainers(children, n) ==
    {ListObj(l) : l \in ObjLists(children, n)}
    \cup {PyStr(<<>>), PyStr(<<"a", "b">>), IntObj(5), None}

\* all/any nodes over leaves, and all/any nodes with one such node as child
ShapeNodes ==
    LET level1 == {DictObj([all |-> c]) : c \in ShapeContainers(ShapeLeaves, MaxShapeItems)}
                  \cup {DictObj([any |-> c]) : c \in ShapeContainers(ShapeLeaves, MaxShapeItems)}
        level2 == {DictObj([all |-> ListObj(<<n>>)]) : n \in level1}
                  \cup {DictObj([any |-> ListObj(<<n>>)]) : n \in level1}
    IN  ShapeLeaves \cup level1 \cup level2

InitShapes ==
    /\ rule \in ShapeNodes
    /\ parsed = None
    /\ rebuilt = EmptyDict
    /\ answers = EmptyDict
    /\ verdict = <<TRUE, TRUE>>
    /\ stage = "loaded"
    /\ pass = 1
    /\ LabelsIdle
    /\ BuilderIdle
    /\ SchemaIdle

\* eval_rule is called on the node with the answers a
EvaluateShape(a) ==
    /\ stage = "loaded"
    /\ answers' = a
    /\ verdict' = [outcome |-> eval_rule_outcome(rule, a)]
    /\ stage' = "evaluated"
    /\ UNCHANGED <<rule, parsed, rebuilt, pass>>
    /\ UNCHANGED <<labelVars, builderVars, schemaVars>>

NextShapes ==
    \E a \in {EmptyDict, [a |-> PyBool(TRUE)], [a |-> PyBool(FALSE)]} : EvaluateShape(a)

SpecShapes == InitShapes /\ [][NextShapes]_vars

-----------------------------------------------------------------------------
(* Risks triggered by a submission.  The runner reads the risks of the     *)
(* stored questionnaire; the logic of a risk is whatever the JSON file     *)
(* holds, so it is a tagged value like the nodes above, and a risk may     *)
(* have no logic key at all.  The risks of the model carry a key and no    *)
(* name, level or mitigations, and the key has no surrounding blanks, so   *)
(* an entry of the result is the key of the risk.                          *)

\* the rule that _collect_triggered_risks evaluates for a risk: a list becomes
\* an all node, None stands for a risk that is skipped before evaluation
TriggerLogic(risk) ==
    IF "logic" \notin DOMAIN risk THEN None
    ELSE IF risk.logic.type = "list" THEN DictObj([all |-> risk.logic])
    ELSE IF risk.logic.type = "dict" THEN risk.logic
    ELSE None

\* the risk is appended to the triggered list: it has a dict (or list) logic
\* and eval_rule returns true without raising
IsTriggered(risk, ans) ==
    /\ TriggerLogic(risk) # None
    /\ eval_rule_outcome(TriggerLogic(risk), ans) = "True"

RECURSIVE _collect_triggered_risks(_, _)
_collect_triggered_risks(risks, ans) ==
    IF risks = <<>> THEN <<>>
    ELSE (IF IsTriggered(Head(risks), ans) THEN <<[key |-> Head(risks).key]>> ELSE <<>>)
         \o _collect_triggered_risks(Tail(risks), ans)

\* what the logic key of a stored risk can hold
RiskLogics ==
    {None, DictObj(EmptyDict), ListObj(<<>>), DictObj(ClauseA),
     DictObj([all |-> ListObj(<<>>)]), DictObj([any |-> ListObj(<<>>)]),
     DictObj([any |-> ListObj(<<DictObj(ClauseA)>>)]),
     ListObj(<<DictObj(ClauseA)>>), DictObj([all |-> PyStr(<<"a", "b">>)]),
     PyStr(<<"x">>), IntObj(5)}

RiskKeys == {"r1", "r2"}

StoredRisks ==
    {[key |-> k] : k \in RiskKeys}
    \cup {[key |-> k, logic |-> l] : k \in RiskKeys, l \in RiskLogics}

InitTrigger ==
    /\ schema \in [questions : {<<>>}, risks : ObjLists(StoredRisks, MaxRisks)]
    /\ report = <<>>
    /\ schema_op = "stored"
    /\ edits = 0
    /\ raw_doc = None
    /\ ConvIdle
    /\ LabelsIdle
    /\ BuilderIdle

\* a submission with the answers a: the triggered risks are collected
CollectTriggered(a) ==
    /\ schema_op = "stored"
    /\ report' = _collect_triggered_risks(schema.risks, a)
    /\ schema_op' = "collected"
    /\ answers' = a
    /\ UNCHANGED <<rule, parsed, rebuilt, verdict, stage, pass>>
    /\ UNCHANGED <<schema, edits, raw_doc>>
    /\ UNCHANGED <<labelVars, builderVars>>

NextTrigger ==
    \E a \in {EmptyDict, [a |-> PyBool(TRUE)], [a |-> PyBool(FALSE)]} : CollectTriggered(a)

SpecTrigger == InitTrigger /\ [][NextTrigger]_vars

-----------------------------------------------------------------------------
(* The schema in the editor.  A question is a dict with a key and a        *)
(* show_if rule, a risk a dict with a key, a level and a logic rule; each  *)
(* of them may be missing in a stored file.  The other attributes (label,  *)
(* type, options, name, mitigations) play no part in keys and rules and    *)
(* are left out.  Rules are tagged values as above.  Texts typed into a    *)
(* key box have no surrounding blanks.  A message shown by the editor or   *)
(* returned by validate_schema is a record of its kind, the key it names   *)
(* and the field or level it names.                                        *)

\* `d.get("key")` is truthy
HasKey(d) == "key" \in DOMAIN d /\ d.key # ""

\* `d.get("key") == k` for a text k
KeyIs(d, k) == "key" \in DOMAIN d /\ d.key = k

\* `d.get(attr)` is truthy
HasRule(d, attr) == attr \in DOMAIN d /\ ~Falsy(d[attr])

Err(kind, key, detail) == [kind |-> kind, key |-> key, detail |-> detail]

RECURSIVE iter_rule_fields(_)
RECURSIVE iter_items_fields(_, _)
\* the fields of the items of a list, from item i on
iter_items_fields(items, i) ==
    IF i > Len(items) THEN <<>>
    ELSE iter_rule_fields(items[i]) \o iter_items_fields(items, i + 1)

\* the field of a dict, then the fields below each of its values (the values
\* under all, any and value are the ones that can hold a dict or a list)
iter_rule_fields(obj) ==
    IF obj.type = "dict"
    THEN (IF "field" \in DOMAIN obj.val THEN <<obj.val.field>> ELSE <<>>)
         \o (IF "all" \in DOMAIN obj.val THEN iter_rule_fields(obj.val.all) ELSE <<>>)
         \o (IF "any" \in DOMAIN obj.val THEN iter_rule_fields(obj.val.any) ELSE <<>>)
         \o (IF "value" \in DOMAIN obj.val THEN iter_rule_fields(obj.val.value) ELSE <<>>)
    ELSE IF obj.type = "list" THEN iter_items_fields(obj.val, 1)
    ELSE <<>>

RECURSIVE _update_rule(_, _, _)
\* the inner function of _rename_show_if_fields
_update_rule(obj, old_key, new_key) ==
    IF obj.type = "dict"
    THEN DictObj([k \in DOMAIN obj.val |->
                    IF k = "field"
                    THEN (IF obj.val.field = old_key THEN new_key ELSE obj.val.field)
                    ELSE IF k \in {"all", "any", "value"}
                    THEN _update_rule(obj.val[k], old_key, new_key)
                    ELSE obj.val[k]])
    ELSE IF obj.type = "list"
    THEN ListObj([i \in 1..Len(obj.val) |-> _update_rule(obj.val[i], old_key, new_key)])
    ELSE obj

\* the rule under attr is updated when it is truthy
RenameIn(d, attr, old_key, new_key) ==
    IF HasRule(d, attr)
    THEN [d EXCEPT ![attr] = _update_rule(@, old_key, new_key)]
    ELSE d

_rename_show_if_fields_questions_only(sch, old_key, new_key) ==
    [questions |-> [i \in 1..Len(sch.questions) |->
                        RenameIn(sch.questions[i], "show_if", old_key, new_key)],
     risks |-> sch.risks]

_rename_show_if_fields(sch, old_key, new_key) ==
    [questions |-> [i \in 1..Len(sch.questions) |->
                        RenameIn(sch.questions[i], "show_if", old_key, new_key)],
     risks |-> [i \in 1..Len(sch.risks) |->
                        RenameIn(sch.risks[i], "logic", old_key, new_key)]]

RECURSIVE question_key_errors(_, _, _)
\* first loop of validate_schema, from question i on, seen the keys met so far
question_key_errors(questions, i, seen) ==
    IF i > Len(questions) THEN <<>>
    ELSE IF ~HasKey(questions[i])
    THEN <<Err("question_key_missing", "", "")>> \o question_key_errors(questions, i + 1, seen)
    ELSE (IF questions[i].key \in seen
          THEN <<Err("duplicate_question_key", questions[i].key, "")>> ELSE <<>>)
         \o question_key_errors(questions, i + 1, seen \cup {questions[i].key})

\* seen_keys after the first loop
seen_keys(questions) ==
    {questions[i].key : i \in {j \in 1..Len(questions) : HasKey(questions[j])}}

RECURSIVE unknown_field_errors(_, _, _, _, _)
\* one error for each field of the list, from field i on, that is no seen key
unknown_field_errors(kind, key, fields, i, seen) ==
    IF i > Len(fields) THEN <<>>
    ELSE (IF fields[i] \notin seen THEN <<Err(kind, key, fields[i])>> ELSE <<>>)
         \o unknown_field_errors(kind, key, fields, i + 1, seen)

RECURSIVE question_field_errors(_, _, _)
\* second loop of validate_schema, from question i on
question_field_errors(questions, i, seen) ==
    IF i > Len(questions) THEN <<>>
    ELSE (IF HasRule(questions[i], "show_if")
          THEN unknown_field_errors("question_unknown_field",
                                    IF "key" \in DOMAIN questions[i]
                                    THEN questions[i].key ELSE "<unknown>",
                                    iter_rule_fields(questions[i].show_if), 1, seen)
          ELSE <<>>)
         \o question_field_errors(questions, i + 1, seen)

RISK_LEVEL_OPTIONS == {"limited", "high", "unacceptable"}

RECURSIVE risk_errors(_, _, _, _)
\* the loop of validate_schema over the risks, from risk i on; a risk of the
\* model has no mitigations
risk_errors(risks, i, seen_risk_keys, seen) ==
    IF i > Len(risks) THEN <<>>
    ELSE IF ~HasKey(risks[i])
    THEN <<Err("risk_key_missing", "", "")>> \o risk_errors(risks, i + 1, seen_risk_keys, seen)
    ELSE (IF risks[i].key \in seen_risk_keys
          THEN <<Err("duplicate_risk_key", risks[i].key, "")>> ELSE <<>>)
         \o (IF "level" \in DOMAIN risks[i] /\ risks[i].level \in RISK_LEVEL_OPTIONS
             THEN <<>>
             ELSE <<Err("risk_invalid_level", risks[i].key,
                        IF "level" \in DOMAIN risks[i] THEN risks[i].level ELSE "None")>>)
         \o (IF HasRule(risks[i], "logic")
             THEN unknown_field_errors("risk_unknown_field", risks[i].key,
                                       iter_rule_fields(risks[i].logic), 1, seen)
             ELSE <<>>)
         \o risk_errors(risks, i + 1, seen_risk_keys \cup {risks[i].key}, seen)

validate_schema(sch) ==
    question_key_errors(sch.questions, 1, {})
    \o question_field_errors(sch.questions, 1, seen_keys(sch.questions))
    \o risk_errors(sch.risks, 1, {}, seen_keys(sch.questions))

\* index of the first item of the list with the key
FirstWithKey(items, key) ==
    CHOOSE i \in 1..Len(items) :
        /\ KeyIs(items[i], key)
        /\ \A j \in 1..(i - 1) : ~KeyIs(items[j], key)

\* a dict with the key and, when the rule is truthy, the rule under attr
WithRule(d, attr, rule_value) ==
    IF Falsy(rule_value) THEN d ELSE d @@ (attr :> rule_value)

\* what a form handler leaves: the schema and the messages it showed
Outcome(sch, errors) == [schema |-> sch, errors |-> errors]

add_question_unchecked(sch, key, show_if) ==
    IF key = "" THEN Outcome(sch, <<Err("key_required", "", "")>>)
    ELSE Outcome([sch EXCEPT !.questions = Append(@, WithRule([key |-> key], "show_if", show_if))],
                 <<>>)

\* the submit handler of render_add_question; show_if is what the text of
\* the "Show if (JSON)" area parses to, None for an empty text
add_question(sch, key, show_if) ==
    IF key = "" THEN Outcome(sch, <<Err("key_required", "", "")>>)
    ELSE IF \E i \in 1..Len(sch.questions) : KeyIs(sch.questions[i], key)
    THEN Outcome(sch, <<Err("question_key_exists", key, "")>>)
    ELSE Outcome([sch EXCEPT !.questions = Append(@, WithRule([key |-> key], "show_if", show_if))],
                 <<>>)

\* the submit handler of render_question_editor for the question selected by
\* active_key (the first question with that key)
save_question(sch, active_key, new_key, show_if) ==
    Only({IF new_key = "" THEN Outcome(sch, <<Err("key_required", "", "")>>)
          ELSE IF \E j \in 1..Len(sch.questions) :
                     KeyIs(sch.questions[j], new_key) /\ j # idx
          THEN Outcome(sch, <<Err("question_key_exists", new_key, "")>>)
          ELSE Only({IF new_key # active_key
                     THEN Outcome(_rename_show_if_fields(replaced, active_key, new_key), <<>>)
                     ELSE Outcome(replaced, <<>>)
                     : replaced \in {[sch EXCEPT !.questions[idx] =
                                         WithRule([key |-> new_key], "show_if", show_if)]}})
          : idx \in {FirstWithKey(sch.questions, active_key)}})

\* render_add_risk after the form is submitted: a new risk has no logic
add_risk(sch, new_key, level) ==
    IF new_key = "" THEN Outcome(sch, <<Err("key_required", "", "")>>)
    ELSE IF \E i \in 1..Len(sch.risks) : KeyIs(sch.risks[i], new_key)
    THEN Outcome(sch, <<Err("risk_key_exists", new_key, "")>>)
    ELSE Outcome([sch EXCEPT !.risks = Append(@, [key |-> new_key, level |-> level])], <<>>)

\* the duplicate test of the risk form is left out
save_risk_unchecked(sch, active_key, new_key, level) ==
    Only({IF new_key = "" THEN Outcome(sch, <<Err("key_required", "", "")>>)
          ELSE Outcome([sch EXCEPT !.risks[idx] =
                           [k \in DOMAIN @ \cup {"key", "level"} |->
                               IF k = "key" THEN new_key
                               ELSE IF k = "level" THEN level ELSE @[k]]],
                       <<>>)
          : idx \in {FirstWithKey(sch.risks, active_key)}})

\* the submit handler of render_risk_editor for the risk selected by
\* active_key: key and level are set in place, the logic is kept
save_risk(sch, active_key, new_key, level) ==
    Only({IF new_key = "" THEN Outcome(sch, <<Err("key_required", "", "")>>)
          ELSE IF \E j \in 1..Len(sch.risks) : KeyIs(sch.risks[j], new_key) /\ j # idx
          THEN Outcome(sch, <<Err("risk_key_exists", new_key, "")>>)
          ELSE Outcome([sch EXCEPT !.risks[idx] =
                           [k \in DOMAIN @ \cup {"key", "level"} |->
                               IF k = "key" THEN new_key
                               ELSE IF k = "level" THEN level ELSE @[k]]],
                       <<>>)
          : idx \in {FirstWithKey(sch.risks, active_key)}})

\* the list after the item with the key is moved by offset places, as
\* _move_question and _move_risk leave it; the list is changed in place
move_item(items, key, offset) ==
    IF ~\E i \in 1..Len(items) : KeyIs(items[i], key) THEN items
    ELSE Only({IF current_index + offset \in 1..Len(items)
               THEN [items EXCEPT ![current_index] = items[current_index + offset],
                                  ![current_index + offset] = items[current_index]]
               ELSE items
               : current_index \in {FirstWithKey(items, key)}})

_move_question(sch, key, offset) ==
    Outcome([sch EXCEPT !.questions = move_item(@, key, offset)], <<>>)

_move_risk(sch, key, offset) ==
    Outcome([sch EXCEPT !.risks = move_item(@, key, offset)], <<>>)

\* [item for item in items if item.get("key") != key]: the new list that
\* the delete handlers bind to the top level of the schema
items_without(items, key) == SelectSeq(items, LAMBDA item : ~KeyIs(item, key))

\* "Delete question" and "Delete" of a risk: the lists of the questionnaire,
\* which main reads in the next run, are left as they are
delete_item(sch, attr, key) == Outcome(sch, <<>>)

RuleA == DictObj(ClauseA)

RuleB == DictObj(ClauseB)

\* a clause on a field that is the key of no question
RuleZ == DictObj([field |-> "zz", operator |-> "is_true"])

\* a field at depth one, two fields at depth two
RuleDeep == DictObj([all |-> ListObj(<<RuleA, DictObj([any |-> ListObj(<<RuleB, RuleZ>>)])>>)])

\* a rule stored as a list of clauses
RuleList == ListObj(<<RuleA, RuleB>>)

\* the questions of the stored files the editor is opened on
QuestionLists ==
    {<<>>,
     <<[key |-> "a"]>>,
     <<[key |-> "a"], [key |-> "b", show_if |-> RuleA]>>,
     <<[key |-> "a"], [key |-> "b", show_if |-> RuleDeep]>>,
     <<[key |-> "a", show_if |-> RuleB], [key |-> "a", show_if |-> RuleA]>>,
     <<[show_if |-> RuleZ], [key |-> "a", show_if |-> DictObj(EmptyDict)]>>,
     <<[key |-> "a", show_if |-> RuleA], [key |-> "b", show_if |-> RuleList]>>,
     <<[key |-> "b"], [key |-> "b"], [key |-> "b", show_if |-> RuleB]>>}

\* the risks of the stored files
RiskLists ==
    {<<>>,
     <<[key |-> "r1", level |-> "high", logic |-> RuleDeep]>>,
     <<[level |-> "high", logic |-> RuleZ]>>,
     <<[key |-> "r1", level |-> "high", logic |-> RuleA], [key |-> "r1", level |-> "severe"]>>,
     <<[key |-> "r1", level |-> "limited", logic |-> RuleList]>>}

\* the last operation: its name and the keys it was given
Op(name, key, new_key) == [name |-> name, key |-> key, new_key |-> new_key]

InitSchema ==
    /\ schema \in [questions : QuestionLists, risks : RiskLists]
    /\ report = <<>>
    /\ schema_op = Op("opened", "", "")
    /\ edits = 0
    /\ raw_doc = None
    /\ ConvIdle
    /\ LabelsIdle
    /\ BuilderIdle

\* a form handler has run: its schema is stored, its messages are shown
Submitted(result, op) ==
    /\ edits < MaxEdits
    /\ edits' = edits + 1
    /\ schema' = result.schema
    /\ report' = result.errors
    /\ schema_op' = op
    /\ UNCHANGED raw_doc
    /\ UNCHANGED <<convVars, labelVars, builderVars>>

\* the keys that main offers for selection
ActiveKeys(items) == seen_keys(items)

AddQuestion(key, show_if) ==
    /\ Len(schema.questions) < MaxQuestions
    /\ Submitted(add_question(schema, key, show_if), Op("add_question", "", key))

\* the text of the rule is left as it is shown (keep) or replaced
SaveQuestion(active_key, new_key, keep, show_if) ==
    /\ active_key \in ActiveKeys(schema.questions)
    /\ \E current \in {schema.questions[FirstWithKey(schema.questions, active_key)]} :
          \E typed \in {IF keep
                        THEN (IF HasRule(current, "show_if") THEN current.show_if ELSE None)
                        ELSE show_if} :
              Submitted(save_question(schema, active_key, new_key, typed),
                        Op("save_question", active_key, new_key))

AddRisk(new_key, level) ==
    /\ Len(schema.risks) < MaxRisks
    /\ Submitted(add_risk(schema, new_key, level), Op("add_risk", "", new_key))

SaveRisk(active_key, new_key, level) ==
    /\ active_key \in ActiveKeys(schema.risks)
    /\ Submitted(save_risk(schema, active_key, new_key, level),
                 Op("save_risk", active_key, new_key))

\* the arrows of the question overview
MoveQuestion(key, offset) ==
    /\ key \in ActiveKeys(schema.questions)
    /\ Submitted(_move_question(schema, key, offset), Op("move_question", key, ""))

\* the arrows of the risk overview
MoveRisk(key, offset) ==
    /\ key \in ActiveKeys(schema.risks)
    /\ Submitted(_move_risk(schema, key, offset), Op("move_risk", key, ""))

\* "Delete question" of the question form
RemoveQuestion(key) ==
    /\ key \in ActiveKeys(schema.questions)
    /\ Submitted(delete_item(schema, "questions", key), Op("delete_question", key, ""))

\* "Delete" of the risk overview
RemoveRisk(key) ==
    /\ key \in ActiveKeys(schema.risks)
    /\ Submitted(delete_item(schema, "risks", key), Op("delete_risk", key, ""))

\* Save as Draft or Publish: the schema is validated
Validate ==
    /\ report' = validate_schema(schema)
    /\ schema_op' = Op("validate", "", "")
    /\ UNCHANGED <<schema, edits, raw_doc>>
    /\ UNCHANGED <<convVars, labelVars, builderVars>>

TypedKeys == {"", "a", "b", "c"}

TypedRiskKeys == {"", "r1", "r2"}

NextSchema ==
    \/ \E key \in TypedKeys, show_if \in {None, RuleDeep} : AddQuestion(key, show_if)
    \/ \E active_key \in TypedKeys, new_key \in TypedKeys :
          \/ SaveQuestion(active_key, new_key, TRUE, None)
          \/ SaveQuestion(active_key, new_key, FALSE, RuleA)
    \/ \E new_key \in TypedRiskKeys : AddRisk(new_key, "high")
    \/ \E active_key \in TypedRiskKeys, new_key \in TypedRiskKeys :
          SaveRisk(active_key, new_key, "limited")
    \/ \E key \in TypedKeys, offset \in {-1, 1} : MoveQuestion(key, offset)
    \/ \E key \in TypedRiskKeys, offset \in {-1, 1} : MoveRisk(key, offset)
    \/ \E key \in TypedKeys : RemoveQuestion(key)
    \/ \E key \in TypedRiskKeys : RemoveRisk(key)
    \/ Validate

SpecSchema == InitSchema /\ [][NextSchema]_vars

-----------------------------------------------------------------------------
(* Schema normalization.  A document is a tagged value like the nodes      *)
(* above; every value of a dict of a document is tagged, and a text is a   *)
(* sequence of characters.  The key of a questionnaire is a name whose     *)
(* characters KeyText gives.                                               *)

LowerChars ==
    <<"a", "b", "c", "d", "e", "f", "g", "h", "i", "j", "k", "l", "m",
      "n", "o", "p", "q", "r", "s", "t", "u", "v", "w", "x", "y", "z">>

UpperChars ==
    <<"A", "B", "C", "D", "E", "F", "G", "H", "I", "J", "K", "L", "M",
      "N", "O", "P", "Q", "R", "S", "T", "U", "V", "W", "X", "Y", "Z">>

IndexIn(chars, c) == CHOOSE i \in 1..Len(chars) : chars[i] = c

ToUpper(c) == IF c \in Range(LowerChars) THEN UpperChars[IndexIn(LowerChars, c)] ELSE c

ToLower(c) == IF c \in Range(UpperChars) THEN LowerChars[IndexIn(UpperChars, c)] ELSE c

RECURSIVE TitleFrom(_, _)
\* str.title(): a letter is upper case after a character that is no letter
\* and lower case after a letter
TitleFrom(s, after_letter) ==
    IF s = <<>> THEN <<>>
    ELSE IF Head(s) \in Range(LowerChars) \cup Range(UpperChars)
    THEN <<IF after_letter THEN ToLower(Head(s)) ELSE ToUpper(Head(s))>>
         \o TitleFrom(Tail(s), TRUE)
    ELSE <<Head(s)>> \o TitleFrom(Tail(s), FALSE)

\* key.replace("_", " ").title()
TitleOfKey(chars) ==
    TitleFrom([i \in 1..Len(chars) |-> IF chars[i] = "_" THEN " " ELSE chars[i]], FALSE)

DEFAULT_QUESTIONNAIRE_KEY == "assessment"

\* the characters of the keys of the questionnaires of the model
KeyText(key) ==
    CASE key = "assessment" -> <<"a", "s", "s", "e", "s", "s", "m", "e", "n", "t">>
      [] key = "q_a" -> <<"q", "_", "a">>
      [] key = "b" -> <<"b">>
      [] key = "" -> <<>>

\* _ensure_mapping
EnsureMapping(d, k) ==
    IF k \in DOMAIN d /\ d[k].type = "dict" THEN d[k] ELSE DictObj(EmptyDict)

\* _ensure_sequence, _ensure_list
EnsureSequence(d, k) ==
    IF k \in DOMAIN d /\ d[k].type = "list" THEN d[k] ELSE ListObj(<<>>)

\* isinstance(d.get(k), str) and d.get(k).strip()
NonBlankText(d, k) == k \in DOMAIN d /\ d[k].type = "str" /\ Strip(d[k].val) # <<>>

\* _derive_label for the dict d of a payload
_derive_label(key, d) ==
    IF NonBlankText(d, "label") THEN PyStr(Strip(d.label.val))
    ELSE IF NonBlankText(EnsureMapping(d, "page").val, "title")
    THEN PyStr(Strip(EnsureMapping(d, "page").val.title.val))
    ELSE IF key # "" THEN PyStr(TitleOfKey(KeyText(key)))
    ELSE PyStr(<<"Q", "u", "e", "s", "t", "i", "o", "n", "n", "a", "i", "r", "e">>)

\* the body of the loop of normalize_questionnaires for one payload
NormalisedEntry(key, payload) ==
    Only({Put(with_questions, "label", _derive_label(key, with_questions))
          : with_questions \in
              {Put(Put(entry, "page", EnsureMapping(entry, "page")),
                   "questions", EnsureSequence(entry, "questions"))
               : entry \in {IF payload.type = "dict" THEN payload.val ELSE EmptyDict}}})

\* the flat page and questions are wrapped whatever the schema holds
QuestionnairesOf_always_wrapped(d) ==
    [k \in {DEFAULT_QUESTIONNAIRE_KEY} |->
        DictObj([label |-> _derive_label(DEFAULT_QUESTIONNAIRE_KEY,
                                         [page |-> EnsureMapping(d, "page")]),
                 page |-> EnsureMapping(d, "page"),
                 questions |-> EnsureSequence(d, "questions")])]

\* the questionnaires that are normalised: those of the schema, or the one
\* built from the flat page and questions of a legacy schema
QuestionnairesOf(d) ==
    IF "questionnaires" \in DOMAIN d /\ d.questionnaires.type = "dict"
       /\ d.questionnaires.val # EmptyDict
    THEN d.questionnaires.val
    ELSE [k \in {DEFAULT_QUESTIONNAIRE_KEY} |->
             DictObj([label |-> _derive_label(DEFAULT_QUESTIONNAIRE_KEY,
                                              [page |-> EnsureMapping(d, "page")]),
                      page |-> EnsureMapping(d, "page"),
                      questions |-> EnsureSequence(d, "questions")])]

\* normalize_questionnaires: the map it returns and the schema it leaves
normalize_questionnaires(doc) ==
    IF doc.type # "dict" THEN [result |-> DictObj(EmptyDict), schema |-> doc]
    ELSE Only({[result |-> DictObj(normalised),
                schema |-> DictObj(Pop(Pop(Put(doc.val, "questionnaires", DictObj(normalised)),
                                           "page"), "questions"))]
               : normalised \in
                   {[k \in DOMAIN QuestionnairesOf(doc.val) |->
                        DictObj(NormalisedEntry(k, QuestionnairesOf(doc.val)[k]))]}})

\* `value or default` for a label: None, "", 0, {} and [] are falsy
LabelText(d, form_key) ==
    IF "label" \notin DOMAIN d \/ Falsy(d.label) THEN KeyText(form_key)
    ELSE IF d.label.type = "str"
    THEN (IF Strip(d.label.val) # <<>> THEN Strip(d.label.val) ELSE KeyText(form_key))
    ELSE IntToStr(d.label.val)

\* _normalise_form_payload; a label of the model is a text, a number or None
_normalise_form_payload(form_key, payload) ==
    Only({Only({IF "meta" \in DOMAIN payload /\ payload.meta.type = "dict"
                THEN Put(entry, "meta", payload.meta)
                ELSE IF "meta" \in DOMAIN entry /\ entry.meta.type # "dict"
                THEN Pop(entry, "meta")
                ELSE entry
                : entry \in
                    {Put(Put(Put(Put(base, "key", Get(base, "key", PyStr(KeyText(form_key)))),
                                 "label", PyStr(LabelText(base, form_key))),
                             "page", EnsureMapping(base, "page")),
                         "questions", EnsureSequence(base, "questions"))}})
          : base \in {IF EnsureMapping(payload, "questionnaire").val # EmptyDict
                      THEN payload.questionnaire.val ELSE payload}})

\* combine_forms over forms_from_payloads for the payloads of the forms
combine_forms(payloads) ==
    DictObj([k \in {"questionnaires", "_multi_form"} |->
                IF k = "_multi_form" THEN PyBool(TRUE)
                ELSE DictObj([form_key \in DOMAIN payloads |->
                                 DictObj(_normalise_form_payload(form_key, payloads[form_key]))])])

TextL == PyStr(<<" ", "L", " ">>)

TextT == PyStr(<<"T", " ">>)

Blank == PyStr(<<" ">>)

OneQuestion == ListObj(<<DictObj([key |-> PyStr(<<"q">>)])>>)

OneRisk == ListObj(<<DictObj([key |-> PyStr(<<"r">>)])>>)

\* a dict with the given values; Absent stands for a key the dict lacks
Absent == [type |-> "absent", val |-> "absent"]

DictOf(d) == DictObj([k \in {x \in DOMAIN d : d[x] # Absent} |-> d[k]])

\* the bodies of questionnaires found in stored files
RawBodies ==
    {DictOf([label |-> l, page |-> pg, questions |-> q, risks |-> r]) :
        l \in {Absent, TextL, Blank, None, IntObj(5)},
        pg \in {Absent, DictObj(EmptyDict), DictObj([title |-> TextT]),
                DictObj([title |-> Blank]), PyStr(<<"p">>)},
        q \in {Absent, OneQuestion, PyStr(<<"x">>)},
        r \in {Absent, ListObj(<<>>), OneRisk, PyStr(<<"x">>)}}

\* schema documents: one questionnaire under a key, two questionnaires, a
\* legacy flat document, a document that is already normalised, no dict
SchemaDocs ==
    {DictObj([questionnaires |-> DictObj([k \in {key} |-> body])]) :
        key \in {"assessment", "q_a", ""}, body \in RawBodies \cup {PyStr(<<"x">>)}}
    \cup {DictObj([questionnaires |-> DictObj([q_a |-> DictOf([label |-> TextL]),
                                               b |-> DictOf([page |-> DictObj([title |-> TextT])])])]),
          DictObj([questionnaires |-> DictObj(EmptyDict), questions |-> OneQuestion,
                   risks |-> OneRisk]),
          DictObj([questionnaires |-> ListObj(<<>>), page |-> DictObj([title |-> TextT])]),
          DictObj(EmptyDict), ListObj(<<>>), None}
    \cup {DictObj(body.val) : body \in RawBodies}

\* raw payloads of form files: a flat body, or a body nested under
\* questionnaire next to meta
FormPayloads ==
    {body.val : body \in RawBodies}
    \cup {[questionnaire |-> body, meta |-> DictObj([version |-> IntObj(5)])] :
             body \in {b \in RawBodies : "risks" \notin DOMAIN b.val \/ b.val.risks = OneRisk}}

InitNorm ==
    /\ \/ raw_doc \in SchemaDocs /\ schema = raw_doc /\ schema_op = "document"
       \/ raw_doc \in {DictObj([k \in {key} |-> DictObj(payload)]) :
                          key \in {"q_a"}, payload \in FormPayloads}
          /\ schema = None /\ schema_op = "payloads"
    /\ report = None
    /\ edits = 0
    /\ ConvIdle
    /\ LabelsIdle
    /\ BuilderIdle

\* the payloads of the form files are turned into one schema
CombineForms ==
    /\ schema_op = "payloads"
    /\ schema' = combine_forms([k \in DOMAIN raw_doc.val |-> raw_doc.val[k].val])
    /\ schema_op' = "combined"
    /\ UNCHANGED <<report, edits, raw_doc>>
    /\ UNCHANGED <<convVars, labelVars, builderVars>>

\* normalize_questionnaires is called on the schema
Normalize ==
    /\ schema_op \in {"document", "combined", "normalized"}
    /\ schema' = normalize_questionnaires(schema).schema
    /\ report' = normalize_questionnaires(schema).result
    /\ schema_op' = IF schema_op = "normalized" THEN "renormalized" ELSE "normalized"
    /\ UNCHANGED <<edits, raw_doc>>
    /\ UNCHANGED <<convVars, labelVars, builderVars>>

NextNorm == CombineForms \/ Normalize

SpecNorm == InitNorm /\ [][NextNorm]_vars

-----------------------------------------------------------------------------
(* Risk aggregation.  A submission is a dict with a system_id and a list   *)
(* of risk entries; the texts of an entry are sequences of characters and  *)
(* an entry of the model has no mitigations.                               *)

\* _clean_text of d.get(k) for a dict whose values are texts
CleanText(d, k) == IF k \in DOMAIN d THEN Strip(d[k]) ELSE <<>>

\* str.lower()
Lower(chars) == [i \in 1..Len(chars) |-> ToLower(chars[i])]

\* a dict with the keys whose text is not empty
NonEmptyItems(d) == [k \in {x \in DOMAIN d : d[x] # <<>>} |-> d[k]]

\* the record that normalise_risk_entries builds for one entry
RiskRecord(entry) ==
    [k \in {"name", "level", "level_label"} |->
        IF k = "name"
        THEN (IF CleanText(entry, "name") # <<>> THEN CleanText(entry, "name")
              ELSE IF CleanText(entry, "key") # <<>> THEN CleanText(entry, "key")
              ELSE <<"R", "i", "s", "k">>)
        ELSE IF k = "level" THEN Lower(CleanText(entry, "level"))
        ELSE IF CleanText(entry, "level") # <<>> THEN TitleFrom(CleanText(entry, "level"), FALSE)
        ELSE <<"U", "n", "k", "n", "o", "w", "n">>]
    @@ NonEmptyItems([key |-> CleanText(entry, "key"),
                      system_id |-> CleanText(entry, "system_id")])

\* normalise_risk_entries for a list of dicts
normalise_risk_entries(risks) == [i \in 1..Len(risks) |-> RiskRecord(risks[i])]

\* the system a normalised risk of a submission is resolved to
ResolvedSystem(risk, assessment_system, target_id) ==
    IF CleanText(risk, "system_id") # <<>> THEN CleanText(risk, "system_id")
    ELSE IF assessment_system # <<>> THEN assessment_system
    ELSE target_id

\* the key under which a risk is kept
DedupKey(risk, risk_system) ==
    <<IF "key" \in DOMAIN risk THEN risk.key ELSE risk.name, risk.level, risk_system>>

\* the copy of the risk that is stored
RiskCopy(risk, risk_system) ==
    IF risk_system # <<>> THEN Put(risk, "system_id", risk_system) ELSE risk

RECURSIVE aggregate_risks(_, _, _, _, _)
\* the inner loop of aggregate_risks_for_system from risk i on: kept is the
\* list of the values of `aggregated`, keys the list of their keys
aggregate_risks(risks, i, assessment_system, target_id, acc) ==
    IF i > Len(risks) THEN acc
    ELSE Only({IF target_id # <<>> /\ risk_system # <<>> /\ risk_system # target_id
               THEN aggregate_risks(risks, i + 1, assessment_system, target_id, acc)
               ELSE IF DedupKey(risks[i], risk_system) \in Range(acc.keys)
               THEN aggregate_risks(risks, i + 1, assessment_system, target_id, acc)
               ELSE aggregate_risks(risks, i + 1, assessment_system, target_id,
                                    [keys |-> Append(acc.keys, DedupKey(risks[i], risk_system)),
                                     kept |-> Append(acc.kept, RiskCopy(risks[i], risk_system))])
               : risk_system \in {ResolvedSystem(risks[i], assessment_system, target_id)}})

RECURSIVE aggregate_from(_, _, _, _)
\* the outer loop from submission i on
aggregate_from(assessments, i, target_id, acc) ==
    IF i > Len(assessments) THEN acc
    ELSE aggregate_from(assessments, i + 1, target_id,
                        aggregate_risks(normalise_risk_entries(assessments[i].risks), 1,
                                        CleanText(assessments[i], "system_id"), target_id, acc))

aggregate_risks_for_system_last_wins(assessments, system_id) ==
    aggregate_from(Reverse(assessments), 1, Strip(system_id), [keys |-> <<>>, kept |-> <<>>]).kept

aggregate_risks_for_system(assessments, system_id) ==
    aggregate_from(assessments, 1, Strip(system_id), [keys |-> <<>>, kept |-> <<>>]).kept

Alpha == <<"a", "l">>

Beta == <<"b", "e">>

R1 == <<"r", "1">>

One == <<"O", "n", "e">>

High == <<"h", "i", "g", "h">>

\* risk entries of stored submissions
RiskEntries ==
    {[key |-> R1, level |-> High, name |-> One],
     [key |-> R1, level |-> <<"H", "i", "g", "h", " ">>, name |-> <<"T", "w", "o">>,
      system_id |-> Beta],
     [key |-> <<"r", "2">>, level |-> <<"l", "o", "w">>],
     [name |-> One, level |-> High],
     [key |-> One, level |-> High, system_id |-> Alpha],
     [key |-> <<" ">>, name |-> <<" ">>]}

\* the risk lists of stored submissions
RiskEntryLists ==
    {<<>>} \cup {<<e>> : e \in RiskEntries}
    \cup {<<[key |-> R1, level |-> High, name |-> One],
            [key |-> R1, level |-> High, name |-> <<"T", "w", "o">>]>>,
          <<[name |-> One, level |-> High], [key |-> One, level |-> High]>>,
          <<[key |-> <<"r", "2">>, level |-> <<"l", "o", "w">>],
            [key |-> R1, level |-> High, name |-> One, system_id |-> Beta]>>}

Assessments ==
    {[risks |-> l] : l \in RiskEntryLists}
    \cup {[system_id |-> sid, risks |-> l] : sid \in {Alpha, Beta}, l \in RiskEntryLists}

InitAggregate ==
    /\ raw_doc \in [assessments : SeqsUpTo(Assessments, MaxAssessments),
                    system_id : {<<>>, Alpha, <<" ", "a", "l">>}]
    /\ schema = [questions |-> <<>>, risks |-> <<>>]
    /\ report = <<>>
    /\ schema_op = "submissions"
    /\ edits = 0
    /\ ConvIdle
    /\ LabelsIdle
    /\ BuilderIdle

\* the risks of the system are aggregated for display
Aggregate ==
    /\ schema_op = "submissions"
    /\ report' = aggregate_risks_for_system(raw_doc.assessments, raw_doc.system_id)
    /\ schema_op' = "aggregated"
    /\ UNCHANGED <<schema, edits, raw_doc>>
    /\ UNCHANGED <<convVars, labelVars, builderVars>>

NextAggregate == Aggregate

SpecAggregate == InitAggregate /\ [][NextAggregate]_vars

\* ---------------------------------------------------------------------------
\* The questionnaire runner: one pass over the questions per run of the page
\* (pages/01_Questionnaire.py should_show_question, render_question, main)
\* ---------------------------------------------------------------------------

should_show_question(question, ans) ==
    IF "show_if" \notin DOMAIN question \/ question.show_if = EmptyDict THEN TRUE
    ELSE runner_eval_rule(question.show_if, ans)

\* render_question for a question of type bool: the answers and the states
\* of the widgets that it leaves; the checkbox shows its stored state, or
\* the answer or the default when it has none
render_question(question, ans, widgets) ==
    IF ~should_show_question(question, ans)
    THEN [answers |-> Pop(ans, question.key), widgets |-> Pop(widgets, question.key)]
    ELSE Only({[answers |-> Put(ans, question.key, PyBool(selection)),
                widgets |-> Put(widgets, question.key, selection)]
               : selection \in
                   {IF question.key \in DOMAIN widgets THEN widgets[question.key]
                    ELSE Truthy(Get(ans, question.key, Get(question, "default", None)))}})

RECURSIVE RenderPass(_, _, _, _)
\* the loop of main over the questions from the i-th on
RenderPass(questions, i, ans, widgets) ==
    IF i > Len(questions) THEN [answers |-> ans, widgets |-> widgets]
    ELSE Only({RenderPass(questions, i + 1, rendered.answers, rendered.widgets)
               : rendered \in {render_question(questions[i], ans, widgets)}})

ShownIfTrue(key, field) == [key |-> key, show_if |-> [field |-> field, operator |-> "is_true"]]

ShownIfFalse(key, field) == [key |-> key, show_if |-> [field |-> field, operator |-> "is_false"]]

\* question lists: questions that depend on an earlier question, on a later
\* question, on each other, and chains of both kinds
RunnerQuestionLists ==
    {<<[key |-> "a"], ShownIfTrue("b", "a")>>,
     <<ShownIfTrue("a", "b"), [key |-> "b"]>>,
     <<[key |-> "a", default |-> PyBool(TRUE)], ShownIfFalse("b", "a"), ShownIfTrue("c", "b")>>,
     <<ShownIfTrue("a", "b"), ShownIfTrue("b", "c"), [key |-> "c"]>>,
     <<ShownIfFalse("a", "b"), ShownIfFalse("b", "a")>>}

\* the questionnaire is opened: nothing is answered, no widget has a state
InitRunner ==
    /\ schema \in [questions : RunnerQuestionLists, risks : {<<>>}]
    /\ raw_doc = EmptyDict
    /\ report = <<>>
    /\ schema_op = "opened"
    /\ edits = 0
    /\ ConvIdle
    /\ LabelsIdle
    /\ BuilderIdle

\* a run of the page: the questions are rendered in order
RunnerRun(widgets, op) ==
    /\ edits < MaxRuns
    /\ edits' = edits + 1
    /\ \E rendered \in {RenderPass(schema.questions, 1, answers, widgets)} :
          /\ answers' = rendered.answers
          /\ raw_doc' = rendered.widgets
    /\ schema_op' = op
    /\ UNCHANGED <<schema, report>>
    /\ UNCHANGED <<rule, parsed, rebuilt, verdict, stage, pass>>
    /\ UNCHANGED <<labelVars, builderVars>>

\* the page is run with the widgets as they are
RunPage == RunnerRun(raw_doc, "run")

\* the user ticks or unticks the checkbox of a question that is shown
ToggleAnswer(key) ==
    /\ key \in DOMAIN raw_doc
    /\ RunnerRun([raw_doc EXCEPT ![key] = ~raw_doc[key]], "toggled")

NextRunner == RunPage \/ \E key \in {"a", "b", "c"} : ToggleAnswer(key)

SpecRunner == InitRunner /\ [][NextRunner]_vars

\* ---------------------------------------------------------------------------
\* Publishing to GitHub: the SHA the session keeps for the form and the
\* file on the main branch, which other writers change as well
\* (pages/02_Editor.py get_schema, handle_publish; lib/github_backend.py)
\* ---------------------------------------------------------------------------

\* a SHA is the number of the version of the file; no file has no SHA
NoSha == 0

\* _get_file_sha: None on 404, else the SHA of the file
get_file_sha(upstream) == upstream.sha

\* put_file with the SHA of the file it replaces: the Contents API stores
\* the content as a new version
put_file(upstream, sha, author) == [sha |-> upstream.sha + 1, author |-> author]

\* handle_publish with GitHub configured and a schema that validates: what it
\* reports, the SHA it stores, and the file it leaves upstream
handle_publish(session, upstream) ==
    Only({IF session.stored_sha # NoSha /\ session.stored_sha # latest_sha
          THEN [outcome |-> "rejected", base |-> latest_sha,
                known |-> latest_sha \in session.seen,
                session |-> [session EXCEPT !.stored_sha = latest_sha],
                upstream |-> upstream]
          ELSE Only({[outcome |-> "published", base |-> latest_sha,
                      known |-> latest_sha \in session.seen,
                      session |-> [stored_sha |-> response.sha,
                                   seen |-> session.seen \cup {response.sha}],
                      upstream |-> response]
                     : response \in {put_file(upstream, latest_sha, "session")}})
          : latest_sha \in {get_file_sha(upstream)}})

\* get_schema of a new session: the schema is loaded and the SHA of the file
\* is stored, or None when GitHub cannot be read
LoadedSession(upstream, seen, readable) ==
    [stored_sha |-> IF readable THEN get_file_sha(upstream) ELSE NoSha,
     seen |-> seen \cup {upstream.sha}]

NoPublish == [outcome |-> "none", base |-> NoSha, known |-> TRUE]

InitPublish ==
    /\ raw_doc \in [sha : 0..1, author : {"other"}]
    /\ \E readable \in BOOLEAN : schema = LoadedSession(raw_doc, {}, readable)
    /\ report = NoPublish
    /\ schema_op = "loaded"
    /\ edits = 0
    /\ ConvIdle
    /\ LabelsIdle
    /\ BuilderIdle

\* another writer publishes a version of the form
UpstreamChange ==
    /\ raw_doc.sha < MaxVersions
    /\ raw_doc' = put_file(raw_doc, raw_doc.sha, "other")
    /\ schema_op' = "upstream"
    /\ UNCHANGED <<schema, report, edits>>
    /\ UNCHANGED <<convVars, labelVars, builderVars>>

\* "Publish" is pressed
HandlePublish ==
    /\ raw_doc.sha < MaxVersions
    /\ \E result \in {handle_publish(schema, raw_doc)} :
          /\ schema' = result.session
          /\ raw_doc' = result.upstream
          /\ report' = [outcome |-> result.outcome, base |-> result.base,
                        known |-> result.known]
    /\ schema_op' = "publish"
    /\ UNCHANGED edits
    /\ UNCHANGED <<convVars, labelVars, builderVars>>

\* "Publish" is pressed and GitHub cannot be read or refuses the write
PublishFails ==
    /\ raw_doc.sha < MaxVersions
    /\ report' = [outcome |-> "error", base |-> NoSha, known |-> TRUE]
    /\ schema_op' = "publish"
    /\ UNCHANGED <<schema, raw_doc, edits>>
    /\ UNCHANGED <<convVars, labelVars, builderVars>>

\* the page is opened in a new session, which loads the schema again
OpenAgain ==
    /\ \E readable \in BOOLEAN : schema' = LoadedSession(raw_doc, schema.seen, readable)
    /\ report' = NoPublish
    /\ schema_op' = "loaded"
    /\ UNCHANGED <<raw_doc, edits>>
    /\ UNCHANGED <<convVars, labelVars, builderVars>>

NextPublish == UpstreamChange \/ HandlePublish \/ PublishFails \/ OpenAgain

SpecPublish == InitPublish /\ [][NextPublish]_vars

\* ---------------------------------------------------------------------------
\* The editor session: the schema kept in the session state, the raw payloads
\* of the form files, the reruns of the page and what is stored
\* (pages/02_Editor.py get_schema, schema_for_storage, main, handle_publish)
\* ---------------------------------------------------------------------------

\* the order in which the forms are found and their questionnaires inserted
KeyOrder == <<"assessment", "b", "q_a", "">>

\* next(iter(questionnaires))
FirstKey(questionnaires) ==
    KeyOrder[CHOOSE i \in 1..Len(KeyOrder) :
                /\ KeyOrder[i] \in DOMAIN questionnaires
                /\ \A j \in 1..(i - 1) : KeyOrder[j] \notin DOMAIN questionnaires]

\* isinstance(active_id, str) and active_id in questionnaires
IsActiveId(storage, questionnaires) ==
    /\ "_active_questionnaire" \in DOMAIN storage
    /\ storage._active_questionnaire.type = "str"
    /\ \E k \in DOMAIN questionnaires : KeyText(k) = storage._active_questionnaire.val

\* the active questionnaire that schema_for_storage selects
ActiveId(storage, questionnaires) ==
    IF IsActiveId(storage, questionnaires)
    THEN CHOOSE k \in DOMAIN questionnaires : KeyText(k) = storage._active_questionnaire.val
    ELSE FirstKey(questionnaires)

\* selected: the copy of the active questionnaire with the page, the questions
\* and the risks of the top level of the schema
SelectedForStorage(storage, entry) ==
    Only({Put(with_questions, "risks",
              Get(storage, "risks", Get(with_questions, "risks", ListObj(<<>>))))
          : with_questions \in
              {IF "questions" \in DOMAIN storage /\ ~Falsy(storage.questions)
               THEN Put(with_page, "questions", storage.questions) ELSE with_page
               : with_page \in
                   {IF "page" \in DOMAIN storage /\ ~Falsy(storage.page)
                    THEN Put(entry, "page", storage.page) ELSE entry}}})

\* the section is written without the risks of the editor
StoredSection_without_risks(section, selected, active_id) ==
    Only({Put(Put(Put(with_key, "label", Get(selected, "label", with_key.key)),
                  "page", Get(selected, "page", DictObj(EmptyDict))),
              "questions", Get(selected, "questions", ListObj(<<>>)))
          : with_key \in {Put(section, "key", Get(selected, "key", PyStr(KeyText(active_id))))}})

\* questionnaire_section after its key, label, page, questions and risks are set
StoredSection(section, selected, active_id) ==
    Only({Put(Put(Put(Put(with_key, "label", Get(selected, "label", with_key.key)),
                      "page", Get(selected, "page", DictObj(EmptyDict))),
                  "questions", Get(selected, "questions", ListObj(<<>>))),
              "risks", Get(selected, "risks", ListObj(<<>>)))
          : with_key \in {Put(section, "key", Get(selected, "key", PyStr(KeyText(active_id))))}})

\* base_payload after the meta of the questionnaire is written or a meta
\* that is no mapping is dropped
WithMeta(base, selected) ==
    IF "meta" \in DOMAIN selected /\ selected.meta.type = "dict"
    THEN Put(base, "meta", selected.meta)
    ELSE IF "meta" \in DOMAIN base /\ base.meta.type # "dict"
    THEN Pop(base, "meta")
    ELSE base

\* the payload and the questionnaire that schema_for_storage returns for the
\* selected questionnaire and the raw payload of its form
PayloadFor(base, selected, active_id) ==
    IF "questionnaire" \in DOMAIN base /\ base.questionnaire.type = "dict"
    THEN Only({[form_key |-> active_id,
                persistable |-> DictObj(Put(WithMeta(base, selected), "questionnaire",
                                            DictObj(section))),
                questionnaire |-> DictObj(section)]
               : section \in {StoredSection(base.questionnaire.val, selected, active_id)}})
    ELSE Only({[form_key |-> active_id,
                persistable |-> DictObj(Put(Put(with_meta, "key", with_meta.key),
                                            "label", with_meta.label)),
                questionnaire |-> DictObj(with_meta)]
               : with_meta \in {WithMeta(StoredSection(base, selected, active_id), selected)}})

\* schema_for_storage for the schema and the raw payloads of the session
schema_for_storage(doc, raw_payloads) ==
    IF normalize_questionnaires(doc).result.val = EmptyDict
    THEN [form_key |-> "", persistable |-> DictObj(EmptyDict),
          questionnaire |-> DictObj(EmptyDict)]
    ELSE Only({Only({PayloadFor(IF active_id \in DOMAIN raw_payloads.val
                                THEN raw_payloads.val[active_id].val ELSE EmptyDict,
                                SelectedForStorage(n.schema.val, n.result.val[active_id].val),
                                active_id)
                     : active_id \in {ActiveId(n.schema.val, n.result.val)}})
               : n \in {normalize_questionnaires(doc)}})

\* the keys of the items of a list
KeysIn(items) ==
    {items.val[i].val.key.val : i \in {j \in 1..Len(items.val) : "key" \in DOMAIN items.val[j].val}}

\* [item for item in items if item.get("key") != key]
WithoutKey(items, key) ==
    ListObj(SelectSeq(items.val, LAMBDA item : ~("key" \in DOMAIN item.val /\ item.val.key.val = key)))

\* d.setdefault(k, default) for the dict d: the dict it leaves
SetDefault(d, k, default) == IF k \in DOMAIN d THEN d ELSE Put(d, k, default)

\* the key of the questionnaire that the session edits
ActiveForm(doc) == ActiveId(doc.val, doc.val.questionnaires.val)

\* get_schema and the head of main: the schema is normalised, which drops the
\* page and the questions of its top level, and the page, the questions and
\* the risks of the top level are bound to those of the selected questionnaire
MainHead(doc, selected_key) ==
    Only({Only({DictObj(Put(Put(Put(Put(Put(n, "questionnaires",
                                            DictObj(Put(n.questionnaires.val, selected_key,
                                                        DictObj(entry)))),
                                        "_active_questionnaire", PyStr(KeyText(selected_key))),
                                    "page", entry.page),
                                "questions", entry.questions),
                            "risks", entry.risks))
                : entry \in
                    {SetDefault(SetDefault(SetDefault(n.questionnaires.val[selected_key].val,
                                                      "page", DictObj(EmptyDict)),
                                           "questions", ListObj(<<>>)),
                                "risks", ListObj(<<>>))}})
          : n \in {normalize_questionnaires(doc).schema.val}})

\* a list of the top level is changed in place: it is the list of the
\* selected questionnaire
InPlace(doc, k, items) ==
    DictObj(Put(Put(doc.val, k, items), "questionnaires",
                DictObj(Put(doc.val.questionnaires.val, ActiveForm(doc),
                            DictObj(Put(doc.val.questionnaires.val[ActiveForm(doc)].val,
                                        k, items))))))

\* schema[k] = [...]: the top level is bound to a new list, the list of the
\* selected questionnaire is left as it is
Rebound(doc, k, items) == DictObj(Put(doc.val, k, items))

NewQuestion(key) == DictObj([key |-> PyStr(key)])

NewRisk(key) == DictObj([key |-> PyStr(key), level |-> PyStr(High)])

\* the submit of "Add question": a key in use is refused
add_question_to(doc, key) ==
    IF key \in KeysIn(doc.val.questions) THEN doc
    ELSE InPlace(doc, "questions", ListObj(Append(doc.val.questions.val, NewQuestion(key))))

\* the submit of "Add risk": a key in use is refused
add_risk_to(doc, key) ==
    IF key \in KeysIn(doc.val.risks) THEN doc
    ELSE InPlace(doc, "risks", ListObj(Append(doc.val.risks.val, NewRisk(key))))

\* "Delete question" for the edited question
delete_question(doc, key) == Rebound(doc, "questions", WithoutKey(doc.val.questions, key))

\* "Delete" for the edited risk
delete_risk(doc, key) == Rebound(doc, "risks", WithoutKey(doc.val.risks, key))

\* validate_schema finds nothing in the questionnaire: every item has a key,
\* no key is used twice, every risk has a level of RISK_LEVEL_OPTIONS
IsValidForStorage(questionnaire) ==
    /\ \A k \in {"questions", "risks"} :
          /\ k \in DOMAIN questionnaire.val
          /\ questionnaire.val[k].type = "list"
          /\ \A i \in 1..Len(questionnaire.val[k].val) :
                /\ "key" \in DOMAIN questionnaire.val[k].val[i].val
                /\ \A j \in 1..(i - 1) :
                      questionnaire.val[k].val[j].val.key # questionnaire.val[k].val[i].val.key
    /\ \A i \in 1..Len(questionnaire.val.risks.val) :
          /\ "level" \in DOMAIN questionnaire.val.risks.val[i].val
          /\ questionnaire.val.risks.val[i].val.level = PyStr(High)

QuestionQ == DictObj([key |-> PyStr(<<"q">>)])

QuestionP == DictObj([key |-> PyStr(<<"p">>)])

RiskR == DictObj([key |-> PyStr(<<"r">>), level |-> PyStr(High)])

RiskS == DictObj([key |-> PyStr(<<"s">>), level |-> PyStr(High)])

MetaOfForm == DictObj([version |-> IntObj(5)])

\* the questionnaires of form files
FormBodies ==
    {DictOf([questions |-> q, risks |-> r]) :
        q \in {Absent, ListObj(<<QuestionQ>>), ListObj(<<QuestionQ, QuestionP>>)},
        r \in {Absent, ListObj(<<RiskR>>), ListObj(<<RiskR, RiskS>>)}}

\* the content of a form file: the questionnaire itself, or the questionnaire
\* under `questionnaire`, alone or next to a meta that is a mapping or a text
FormFiles ==
    FormBodies
    \cup {DictOf([questionnaire |-> body, meta |-> meta]) :
             body \in FormBodies, meta \in {Absent, MetaOfForm, PyStr(<<"m">>)}}

\* the form files found when the session starts: none, one, or two
FormFileSets ==
    {DictObj(EmptyDict)}
    \cup {DictObj([k \in {"q_a"} |-> file]) : file \in FormFiles}
    \cup {DictObj([k \in {"q_a", "b"} |-> IF k = "q_a" THEN file
                                           ELSE DictOf([questions |-> ListObj(<<QuestionP>>)])])
          : file \in FormFiles}

\* what a run of the page shows under "View raw schema" and writes on
\* Publish or Save as Draft: the values of schema_for_storage, the risks of
\* the editor and the raw payload it was called with
Stored(doc, raw_payloads, written) ==
    Only({[form_key |-> result.form_key,
           persistable |-> result.persistable,
           questionnaire |-> result.questionnaire,
           risks |-> Get(doc.val, "risks", Absent),
           raw |-> Get(raw_payloads.val, result.form_key, Absent),
           written |-> IF written = "no" \/ IsValidForStorage(result.questionnaire)
                      THEN written ELSE "refused"]
          : result \in {schema_for_storage(doc, raw_payloads)}})

\* the run was restarted before anything was stored or shown
NothingStored ==
    [form_key |-> "", persistable |-> Absent, questionnaire |-> Absent,
     risks |-> Absent, raw |-> Absent, written |-> "no"]

\* the deletions of the session that no later addition has undone
Deletion(form_key, kind, key) == [form_key |-> form_key, kind |-> kind, key |-> key]

SessionOp(name, key, deleted) == [name |-> name, key |-> key, deleted |-> deleted]

\* get_schema of the first run: the forms are loaded, combined and normalised
InitSession ==
    /\ raw_doc \in FormFileSets
    /\ schema = normalize_questionnaires(
                    combine_forms([k \in DOMAIN raw_doc.val |-> raw_doc.val[k].val])).schema
    /\ report = NothingStored
    /\ schema_op = SessionOp("loaded", <<>>, {})
    /\ edits = 0
    /\ ConvIdle
    /\ LabelsIdle
    /\ BuilderIdle

\* a run of the page that ends after "View raw schema" and the buttons
RunEnds(doc, op, written) ==
    /\ edits < MaxEdits
    /\ edits' = edits + 1
    /\ schema' = doc
    /\ schema_op' = op
    /\ report' = Stored(doc, raw_doc, written)
    /\ raw_doc' = IF report'.written = "published"
                  THEN DictObj(Put(raw_doc.val, report'.form_key, report'.persistable))
                  ELSE raw_doc
    /\ UNCHANGED <<convVars, labelVars, builderVars>>

\* the questionnaires the radio of main offers
SelectableKeys == DOMAIN normalize_questionnaires(schema).result.val

\* the page is run again, with the questionnaire selected in the radio
Rerun ==
    \E selected_key \in SelectableKeys :
        RunEnds(MainHead(schema, selected_key),
                SessionOp("rerun", <<>>, schema_op.deleted), "no")

\* "Delete question" is submitted for a question of the questionnaire
DeleteQuestion ==
    \E selected_key \in SelectableKeys :
        \E key \in KeysIn(MainHead(schema, selected_key).val.questions) :
            RunEnds(delete_question(MainHead(schema, selected_key), key),
                    SessionOp("delete_question", key,
                              schema_op.deleted \cup {Deletion(selected_key, "questions", key)}),
                    "no")

\* "Delete" is pressed for a risk of the overview; the page is run again at once
DeleteRisk ==
    \E selected_key \in SelectableKeys :
        \E key \in KeysIn(MainHead(schema, selected_key).val.risks) :
            /\ edits < MaxEdits
            /\ edits' = edits + 1
            /\ schema' = delete_risk(MainHead(schema, selected_key), key)
            /\ schema_op' = SessionOp("delete_risk", key,
                                      schema_op.deleted \cup {Deletion(selected_key, "risks", key)})
            /\ report' = NothingStored
            /\ UNCHANGED raw_doc
            /\ UNCHANGED <<convVars, labelVars, builderVars>>

\* the keys typed into the forms that add a question or a risk
TypedItemKeys == {<<"q">>, <<"p">>, <<"r">>}

\* "Add question" is submitted
AddQuestionToForm ==
    \E selected_key \in SelectableKeys, key \in TypedItemKeys :
        RunEnds(add_question_to(MainHead(schema, selected_key), key),
                SessionOp("add_question", key,
                          IF key \in KeysIn(MainHead(schema, selected_key).val.questions)
                          THEN schema_op.deleted
                          ELSE schema_op.deleted \ {Deletion(selected_key, "questions", key)}),
                "no")

\* "Create risk" is submitted; the page is run again at once
AddRiskToForm ==
    \E selected_key \in SelectableKeys, key \in TypedItemKeys :
        /\ edits < MaxEdits
        /\ edits' = edits + 1
        /\ schema' = add_risk_to(MainHead(schema, selected_key), key)
        /\ schema_op' = SessionOp("add_risk", key,
                                  IF key \in KeysIn(MainHead(schema, selected_key).val.risks)
                                  THEN schema_op.deleted
                                  ELSE schema_op.deleted \ {Deletion(selected_key, "risks", key)})
        /\ report' = IF key \in KeysIn(MainHead(schema, selected_key).val.risks)
                     THEN Stored(schema', raw_doc, "no") ELSE NothingStored
        /\ UNCHANGED raw_doc
        /\ UNCHANGED <<convVars, labelVars, builderVars>>

\* "Publish" is pressed: handle_publish stores the payload and keeps it as
\* the raw payload of the form
Publish ==
    \E selected_key \in SelectableKeys :
        RunEnds(MainHead(schema, selected_key),
                SessionOp("publish", <<>>, schema_op.deleted), "published")

\* "Save as Draft" is pressed: handle_save_draft writes the payload to the
\* draft branch
SaveDraft ==
    \E selected_key \in SelectableKeys :
        RunEnds(MainHead(schema, selected_key),
                SessionOp("save_draft", <<>>, schema_op.deleted), "draft")

NextSession ==
    \/ Rerun
    \/ DeleteQuestion
    \/ DeleteRisk
    \/ AddQuestionToForm
    \/ AddRiskToForm
    \/ Publish
    \/ SaveDraft

SpecSession == InitSession /\ [][NextSession]_vars

-----------------------------------------------------------------------------
(* Claims about the converter                                              *)

\* C1: round-trip law -- for every rule tree that _rule_to_groups accepts and
\* every answer map, the recomposed rule evaluates like the original rule.
C1_RoundTripLaw ==
    stage = "evaluated" => verdict[1] = verdict[2]

IsAllAnyNode(n) == "all" \in DOMAIN n \/ "any" \in DOMAIN n

TopKey(n) == IF "all" \in DOMAIN n THEN "all" ELSE "any"

Children(n) == IF IsAllAnyNode(n) THEN n[TopKey(n)] ELSE <<>>

RECURSIVE StructuralLevels(_)
\* nesting depth of all/any nodes
StructuralLevels(n) ==
    IF ~IsAllAnyNode(n) THEN 0
    ELSE LET kids == Children(n)
             below == {StructuralLevels(kids[i]) : i \in 1..Len(kids)} \cup {0}
         IN  1 + CHOOSE d \in below : \A e \in below : e <= d

\* some clause and some all/any node are siblings under n
MixesSiblings(n) ==
    LET kids == Children(n)
    IN  /\ \E i \in 1..Len(kids) : _is_clause_rule(kids[i])
        /\ \E i \in 1..Len(kids) : IsAllAnyNode(kids[i])

RECURSIVE HasMixedSiblings(_)
\* n or a node below n mixes clauses and sub-groups
HasMixedSiblings(n) ==
    MixesSiblings(n) \/ \E i \in 1..Len(Children(n)) : HasMixedSiblings(Children(n)[i])

\* an all/any node with two or more children that are not all clauses
Branching(n) ==
    LET kids == Children(n)
    IN  /\ Len(kids) >= 2
        /\ \E i \in 1..Len(kids) : ~_is_clause_rule(kids[i])

RECURSIVE HasBranching(_)
\* n or a node below n is branching
HasBranching(n) ==
    Branching(n) \/ \E i \in 1..Len(Children(n)) : HasBranching(Children(n)[i])

BranchingBelowTop(n) ==
    \E i \in 1..Len(Children(n)) : HasBranching(Children(n)[i])

AllClauses(items) == \A i \in 1..Len(items) : _is_clause_rule(items[i])

OneGroup(g) == [groups |-> <<g>>, combine_mode |-> "all"]

\* the decomposition of a non-flat all/any node from its children's groups
GroupsOfChildren(r) ==
    LET items == Children(r)
    IN  IF \A i \in 1..Len(items) : _extract_group(items[i]) # None
        THEN [groups |-> [i \in 1..Len(items) |-> _extract_group(items[i])],
              combine_mode |-> TopKey(r)]
        ELSE None

\* C5 as stated: empty rule -> no groups; a clause or a node of clauses -> one
\* group with combine_mode all; any other node -> its children's groups with
\* combine_mode equal to the top key, or None when a child is not extractable.
C5_DecompositionAsStated ==
    stage = "decomposed" =>
        parsed = IF rule = EmptyDict THEN [groups |-> <<>>, combine_mode |-> "all"]
                 ELSE IF _is_clause_rule(rule)
                      THEN OneGroup([mode |-> "all", clauses |-> <<rule>>])
                      ELSE IF AllClauses(Children(rule))
                           THEN OneGroup([mode |-> TopKey(rule), clauses |-> Children(rule)])
                           ELSE GroupsOfChildren(rule)

\* C5 amended: as stated, and a node with exactly one child that is extractable
\* also yields that child's single group with combine_mode all.
C5_DecompositionResult ==
    stage = "decomposed" =>
        parsed = IF rule = EmptyDict THEN [groups |-> <<>>, combine_mode |-> "all"]
                 ELSE IF _is_clause_rule(rule)
                      THEN OneGroup([mode |-> "all", clauses |-> <<rule>>])
                      ELSE IF AllClauses(Children(rule))
                           THEN OneGroup([mode |-> TopKey(rule), clauses |-> Children(rule)])
                           ELSE IF Len(Children(rule)) = 1
                                   /\ _extract_group(Children(rule)[1]) # None
                                THEN OneGroup(_extract_group(Children(rule)[1]))
                                ELSE GroupsOfChildren(rule)

C5_Witness ==
    /\ stage = "decomposed"
    /\ pass = 1
    /\ parsed # None
    /\ Len(parsed.groups) = 2
    /\ parsed.combine_mode = "any"

ValidMode(m) == IF m \in {"all", "any"} THEN m ELSE "all"

Rendering(g) == [k \in {ValidMode(Get(g, "mode", "all"))} |-> g.clauses]

KeptGroups(groups) == SelectSeq(groups, LAMBDA g : Len(g.clauses) > 0)

\* C6: composition drops empty groups, renders the others as {mode: clauses}
\* and returns the empty rule, the single rendering, or the renderings
\* wrapped under the combine mode, invalid modes being replaced by all.
C6_CompositionResult ==
    stage = "composed" =>
        LET kept == KeptGroups(parsed.groups)
            renderings == [i \in 1..Len(kept) |-> Rendering(kept[i])]
        IN  rebuilt = IF Len(kept) = 0 THEN EmptyDict
                      ELSE IF Len(kept) = 1 THEN renderings[1]
                      ELSE [k \in {ValidMode(parsed.combine_mode)} |-> renderings]

C6_Witness ==
    /\ stage = "composed"
    /\ Len(parsed.groups) = 3
    /\ Len(KeptGroups(parsed.groups)) = 2
    /\ parsed.combine_mode = "xor"
    /\ \E i \in 1..3 : Get(parsed.groups[i], "mode", "all") = "xor" /\ Len(parsed.groups[i].clauses) > 0

\* C7: the recomposed rule is a fixed point -- decomposition accepts it and
\* recomposing it returns exactly the same rule.
C7_CanonicalFixedPoint ==
    pass >= 2 =>
        /\ stage = "decomposed" => parsed # None
        /\ stage = "composed" => rebuilt = rule

C7_Witness ==
    /\ pass = 2
    /\ stage = "composed"
    /\ Len(parsed.groups) = 2
    /\ rebuilt = rule

-----------------------------------------------------------------------------
(* Claims about group labels                                               *)

LabelsOf(gs) == [i \in 1..Len(gs) |-> Get(gs[i], "label", <<>>)]

\* C8: after the first label pass and after every add, delete, rename and
\* re-sync of a builder group list, each of which ends in a label pass, every
\* group has a non-empty label and no two groups have the same label,
\* whatever labels the groups carried at the start.
C8_LabelsUniqueNonEmpty ==
    label_op \notin {"idle", "init"} =>
        \A i \in 1..Len(builder_groups) :
            /\ "label" \in DOMAIN builder_groups[i]
            /\ builder_groups[i].label # <<>>
            /\ \A j \in 1..Len(builder_groups) :
                   j # i => builder_groups[j].label # builder_groups[i].label

\* a rename took effect in a list of at least two groups
C8_Witness ==
    /\ label_op = "rename"
    /\ Len(builder_groups) >= 2
    /\ LabelsOf(builder_groups) # LabelsOf(prev_groups)

\* the base label of the group at position index: its stripped explicit label,
\* or "Group {index}" when that is empty
BaseLabel(gs, index) ==
    IF StrippedLabel(gs[index]) # <<>> THEN StrippedLabel(gs[index]) ELSE GroupN(index)

\* the labels assigned to the groups before position index
EarlierLabels(gs, index) == {gs[j].label : j \in 1..(index - 1)}

\* base_label with the smallest suffix number >= first that is not used yet
SmallestFree(base_label, first, used) ==
    LET k == CHOOSE n \in first..(first + Cardinality(used)) :
                 /\ WithSuffix(base_label, n) \notin used
                 /\ \A m \in first..(n - 1) : WithSuffix(base_label, m) \in used
    IN  WithSuffix(base_label, k)

IsPrefix(p, s) == Len(p) <= Len(s) /\ SubSeq(s, 1, Len(p)) = p

\* C10: the label _generate_group_label(groups) returns for a new group starts
\* with "Group {n+1}", n being the number of existing groups, and is not the
\* label of an existing group.
C10_GeneratedLabelIsGroupN ==
    label_op = "add" =>
        /\ IsPrefix(GroupN(Len(prev_groups) + 1), new_label)
        /\ \A i \in 1..Len(prev_groups) : prev_groups[i].label # new_label

-----------------------------------------------------------------------------
(* Claims about the rule builders                                          *)

\* the rule is non-empty and _rule_to_groups rejects it
Unsupported(r) == r # EmptyDict /\ _rule_to_groups(r) = None

\* what a saved JSON text leaves on the question after the builder rendered it
SavedRule(text) ==
    LET typed == IF text.kind = "json" THEN text.tree ELSE EmptyDict
    IN  IF Unsupported(typed) THEN typed
        ELSE _groups_to_rule(_rule_to_groups(typed).groups, _rule_to_groups(typed).combine_mode)

\* C2: a run of the editor page never changes a stored show_if or logic that
\* _rule_to_groups rejects, except that the show_if is replaced by what the
\* user typed into the JSON area and saved with the question form.
C2_UnsupportedRuleNotRewritten ==
    [][/\ Unsupported(schema_rules.logic) => schema_rules'.logic = schema_rules.logic
       /\ Unsupported(schema_rules.show_if) =>
              \/ schema_rules'.show_if = schema_rules.show_if
              \/ /\ json_text' # json_text
                 /\ json_text'.kind \in {"json", "blank"}
                 /\ schema_rules'.show_if = SavedRule(json_text')]_vars

\* both builders have rendered a rule they cannot parse and flagged it, the
\* question's builder still holding groups from an earlier rule
C2_Witness ==
    /\ Unsupported(schema_rules.show_if)
    /\ Unsupported(schema_rules.logic)
    /\ builder_state.show_if # EmptyDict
    /\ builder_state.show_if.unsupported
    /\ builder_state.show_if.groups # <<>>
    /\ builder_state.logic # EmptyDict
    /\ builder_state.logic.unsupported
    /\ json_text = Dumps(schema_rules.show_if)

\* C3: whenever a run ends with a stored rule that _rule_to_groups rejects,
\* the builder state of that rule has the groups and the combine mode it had
\* before the run (none and "all" when there was no state) and is flagged
\* unsupported.
C3_SyncKeepsGroups ==
    [][\A kind \in {"show_if", "logic"} :
          Unsupported(schema_rules'[kind]) =>
              /\ builder_state'[kind].groups = Get(builder_state[kind], "groups", <<>>)
              /\ builder_state'[kind].combine_mode =
                     Get(builder_state[kind], "combine_mode", "all")
              /\ builder_state'[kind].unsupported]_vars

\* the question's rule was replaced by one the builder cannot parse while its
\* builder state held two groups combined with "any"
C3_Witness ==
    /\ Unsupported(schema_rules.show_if)
    /\ builder_state.show_if # EmptyDict
    /\ builder_state.show_if.unsupported
    /\ Len(builder_state.show_if.groups) = 2
    /\ builder_state.show_if.combine_mode = "any"
-----------------------------------------------------------------------------
(* Claims about rule evaluation                                            *)

RECURSIVE Subtrees(_)
\* n and every node below it
Subtrees(n) == {n} \cup UNION {Subtrees(Children(n)[i]) : i \in 1..Len(Children(n))}

\* C11: tree evaluation laws -- for every answer map and every node of the
\* rule at any depth, eval_rule is true for the empty rule, true for an all
\* node iff every child evaluates true, true for an any node iff some child
\* evaluates true, and the runner's and the editor's eval_rule agree.
C11_TreeLaws ==
    stage = "evaluated" =>
        /\ verdict.runner = verdict.editor
        /\ \A n \in Subtrees(rule) :
              /\ runner_eval_rule(n, answers) = eval_rule(n, answers)
              /\ n = EmptyDict => eval_rule(n, answers)
              /\ "all" \in DOMAIN n =>
                    (eval_rule(n, answers)
                        <=> \A i \in 1..Len(n.all) : eval_rule(n.all[i], answers))
              /\ ("any" \in DOMAIN n /\ "all" \notin DOMAIN n) =>
                    (eval_rule(n, answers)
                        <=> \E i \in 1..Len(n.any) : eval_rule(n.any[i], answers))

C11_Witness ==
    /\ stage = "evaluated"
    /\ rule = [all |-> <<[all |-> <<>>], [any |-> <<>>]>>]
    /\ ~verdict.editor
    /\ ~verdict.runner
\* the answer eval_clause reads for the clause: answers.get(field)
AnswerOf(clause) == Get(answers, clause.field, None)

\* the value eval_clause reads from the clause: clause.get("value")
ExpectedOf(clause) == Get(clause, "value", None)

\* the state holds the verdict on a clause with a field and one of the operators
EvaluatedClause(operators) ==
    /\ stage = "evaluated"
    /\ "field" \in DOMAIN rule
    /\ "operator" \in DOMAIN rule
    /\ rule.operator \in operators

\* the list answer holds an item equal to the clause value
ListContains(lst, expected) == \E i \in 1..Len(lst) : PyEq(PyStr(lst[i]), expected)

\* C12: includes is true iff the answer is a list that contains the clause
\* value or a non-collection answer equal to the value, and false for a
\* missing answer; not_includes is the negation of includes, except for a
\* missing answer, for which it is true.
C12_IncludesLaws ==
    EvaluatedClause({"includes", "not_includes"}) =>
        LET value == AnswerOf(rule)
            expected == ExpectedOf(rule)
            includes == runner_eval_clause(Put(rule, "operator", "includes"), answers)
        IN  /\ includes <=> /\ value # None
                            /\ IF value.type = "list" THEN ListContains(value.val, expected)
                               ELSE PyEq(value, expected)
            /\ rule.operator = "includes" => verdict.runner = includes
            /\ rule.operator = "not_includes" =>
                   verdict.runner = (IF value = None THEN TRUE ELSE ~includes)

C12_Witness ==
    /\ EvaluatedClause({"not_includes"})
    /\ AnswerOf(rule) = None
    /\ ExpectedOf(rule) = None
    /\ verdict.runner
    /\ ~runner_eval_clause(Put(rule, "operator", "includes"), answers)
\* the state holds the verdict on a clause with a field whose operator, equals
\* when the clause names none, is one of the operators
EvaluatedOperator(operators) ==
    /\ stage = "evaluated"
    /\ "field" \in DOMAIN rule
    /\ "all" \notin DOMAIN rule
    /\ "any" \notin DOMAIN rule
    /\ Get(rule, "operator", "equals") \in operators

\* C13: for every clause and answer map, a missing key reading as None,
\* equals is true iff the answer equals the clause value, so a missing answer
\* equals a missing or None value, and not_equals is the negation of equals.
C13_EqualsLaws ==
    EvaluatedOperator({"equals", "not_equals"}) =>
        LET value == AnswerOf(rule)
            expected == ExpectedOf(rule)
            equals == runner_eval_clause(Put(rule, "operator", "equals"), answers)
        IN  /\ equals <=> (value.type = expected.type /\ value.val = expected.val)
            /\ ("a" \notin DOMAIN answers
                   /\ ("value" \notin DOMAIN rule \/ rule.value = None)) => equals
            /\ Get(rule, "operator", "equals") = "equals" => verdict.runner = equals
            /\ Get(rule, "operator", "equals") = "not_equals" => verdict.runner = ~equals

C13_Witness ==
    /\ EvaluatedOperator({"not_equals"})
    /\ "a" \notin DOMAIN answers
    /\ "value" \notin DOMAIN rule
    /\ ~verdict.runner
\* bool(answer) is True, spelled out per type of answer
BoolIsTrue(value) ==
    \/ value = PyBool(TRUE)
    \/ value.type \in {"str", "list"} /\ value.val # <<>>

KnownOperators ==
    {"always", "equals", "not_equals", "includes", "not_includes", "any_selected",
     "contains_any", "all_selected", "is_true", "is_false"}

\* a clause without field whose operator is not always, or with an operator
\* the evaluator does not know
MalformedClause(n) ==
    /\ ~IsAllAnyNode(n)
    /\ n # EmptyDict
    /\ \/ "field" \notin DOMAIN n /\ Get(n, "operator", "equals") # "always"
       \/ Get(n, "operator", "equals") \notin KnownOperators

RECURSIVE ValueWithFalseLeaves(_, _)
\* the value of the tree when each malformed clause counts as a false child
ValueWithFalseLeaves(n, ans) ==
    IF n = EmptyDict THEN TRUE
    ELSE IF MalformedClause(n) THEN FALSE
    ELSE IF "all" \in DOMAIN n
         THEN \A i \in 1..Len(n.all) : ValueWithFalseLeaves(n.all[i], ans)
    ELSE IF "any" \in DOMAIN n
         THEN \E i \in 1..Len(n.any) : ValueWithFalseLeaves(n.any[i], ans)
    ELSE runner_eval_clause(n, ans)

\* C15: a malformed clause never aborts the evaluation of the tree around it --
\* a clause without field (operator not always) and a clause with an unknown
\* operator evaluate to false with a warning, and the all/any nodes above are
\* evaluated with that false as the value of the child.
C15_MalformedClauseIsFalse ==
    stage = "evaluated" =>
        /\ verdict.runner \in BOOLEAN
        /\ verdict.runner = ValueWithFalseLeaves(rule, answers)
        /\ \A n \in Subtrees(rule) :
              MalformedClause(n) =>
                  /\ ~runner_eval_rule(n, answers)
                  /\ Len(eval_rule_warnings(n, answers)) = 1
        /\ MalformedClause(rule) => Len(verdict.warnings) = 1
        /\ verdict.warnings # <<>> => \E n \in Subtrees(rule) : MalformedClause(n)

C15_Witness ==
    /\ stage = "evaluated"
    /\ rule = [any |-> <<NoFieldClause, ClauseA>>]
    /\ verdict.runner
    /\ Len(verdict.warnings) = 1
\* C16: no error propagates out of eval_clause or eval_rule for any malformed
\* input -- a node that is neither a clause nor an all/any node (a text, a
\* number, a list), an all/any key whose value is not a list, and a non-dict
\* child all produce a boolean instead of an exception.
C16_NoErrorPropagates ==
    stage = "evaluated" => verdict.outcome \in {"True", "False"}

\* the risk has no logic: the key is absent, null or an empty node
NoLogic(risk) ==
    \/ "logic" \notin DOMAIN risk
    \/ risk.logic = None
    \/ risk.logic = DictObj(EmptyDict)

\* C17: a risk with no logic (logic absent, null or an empty node) never
\* auto-triggers -- for every answer map the triggered list holds no entry of
\* that risk (the risk is told from the others by its key).
C17_NoLogicNeverTriggers ==
    schema_op = "collected" =>
        \A i \in 1..Len(schema.risks) :
            (/\ NoLogic(schema.risks[i])
             /\ \A j \in 1..Len(schema.risks) : j # i => schema.risks[j].key # schema.risks[i].key)
            => \A e \in 1..Len(report) : report[e].key # schema.risks[i].key

RECURSIVE NodesBelow(_)
\* the value and every value nested in it, at any depth
NodesBelow(obj) ==
    {obj} \cup
    (IF obj.type = "dict"
     THEN UNION {NodesBelow(obj.val[k]) : k \in DOMAIN obj.val \cap {"all", "any", "value"}}
     ELSE IF obj.type = "list"
     THEN UNION {NodesBelow(obj.val[i]) : i \in 1..Len(obj.val)}
     ELSE {})

\* the fields of the clauses found anywhere in the rule
FieldsAnywhere(obj) ==
    {n.val.field : n \in {m \in NodesBelow(obj) : m.type = "dict" /\ "field" \in DOMAIN m.val}}

\* the keys of the questions of the schema
QuestionKeys(sch) ==
    {sch.questions[i].key : i \in {j \in 1..Len(sch.questions) : "key" \in DOMAIN sch.questions[j]}}

\* the rules under attr of the items of the list
RulesOf(items, attr) ==
    {items[i][attr] : i \in {j \in 1..Len(items) : attr \in DOMAIN items[j]}}

\* the report holds an error of the kind that names the field
Reported(kind, field) ==
    \E e \in 1..Len(report) : report[e].kind = kind /\ report[e].detail = field

\* C18: validate_schema returns an error for every field that occurs anywhere
\* in the show_if tree of a question or the logic tree of a risk and is not the
\* key of a question, it returns no unknown-field error for a field that is a
\* question key, and iter_rule_fields returns every field at every depth.
C18_EveryUnknownFieldReported ==
    schema_op.name = "validate" =>
        /\ \A r \in RulesOf(schema.questions, "show_if") :
              \A f \in FieldsAnywhere(r) \ QuestionKeys(schema) :
                  Reported("question_unknown_field", f)
        /\ \A r \in RulesOf(schema.risks, "logic") :
              \A f \in FieldsAnywhere(r) \ QuestionKeys(schema) :
                  Reported("risk_unknown_field", f)
        /\ \A e \in 1..Len(report) :
              report[e].kind \in {"question_unknown_field", "risk_unknown_field"}
              => report[e].detail \notin QuestionKeys(schema)
        /\ \A r \in RulesOf(schema.questions, "show_if") \cup RulesOf(schema.risks, "logic") :
              Range(iter_rule_fields(r)) = FieldsAnywhere(r)

\* how many items of the list have the key
KeyCount(items, key) == Cardinality({i \in 1..Len(items) : KeyIs(items[i], key)})

\* how many errors of the kind name the key
ErrorCount(kind, key) ==
    Cardinality({e \in 1..Len(report) : report[e].kind = kind /\ report[e].key = key})

\* validate_schema reports a key once for each time it is repeated
DuplicatesReported(items, kind) ==
    /\ \A i \in 1..Len(items) :
          HasKey(items[i]) => ErrorCount(kind, items[i].key) = KeyCount(items, items[i].key) - 1
    /\ \A e \in 1..Len(report) :
          report[e].kind = kind => KeyCount(items, report[e].key) >= 2

\* how many items of the list repeat the key of an earlier item
Repeats(items) ==
    Cardinality({i \in 1..Len(items) :
                    HasKey(items[i]) /\ \E j \in 1..(i - 1) : KeyIs(items[j], items[i].key)})

\* the items the list had keep their keys, but for the item the form edits,
\* which takes the key that was typed
KeysKept(before, after, form, op) ==
    \A i \in 1..Len(before) :
        \/ /\ i <= Len(after)
           /\ ("key" \in DOMAIN before[i]) = ("key" \in DOMAIN after[i])
           /\ "key" \in DOMAIN before[i] => after[i].key = before[i].key
        \/ /\ op.name = form
           /\ i = FirstWithKey(before, op.key)
           /\ KeyIs(after[i], op.new_key)
        \/ /\ op.name \in {"move_question", "move_risk"}
           /\ Len(after) = Len(before)
           /\ \E j \in {i - 1, i, i + 1} \cap (1..Len(after)) :
                 after[j] = before[i] /\ after[i] = before[j]

\* C19 as stated: uniqueness of keys is enforced at validation time and not at
\* insertion time -- validate_schema reports each repeated key, and the forms
\* that add a question or a risk never refuse a key.
C19_EnforcedOnlyAtValidation ==
    /\ schema_op.name = "validate" =>
          /\ DuplicatesReported(schema.questions, "duplicate_question_key")
          /\ DuplicatesReported(schema.risks, "duplicate_risk_key")
    /\ schema_op.name \in {"add_question", "add_risk"} =>
          \A e \in 1..Len(report) :
              report[e].kind \notin {"question_key_exists", "risk_key_exists"}

\* C19 amended: uniqueness of keys is enforced at insertion time and reported
\* at validation time -- the forms that add or edit a question or a risk
\* refuse a key that another item has and leave the schema as it is, so no
\* form adds a repeated key; validate_schema reports a key once for each time
\* it is repeated in the schema it is given; and no operation changes the key
\* of an item other than to the key typed into the form of that item.
C19_RefusedAtInsertionReportedAtValidation ==
    /\ [](schema_op.name = "validate" =>
             /\ DuplicatesReported(schema.questions, "duplicate_question_key")
             /\ DuplicatesReported(schema.risks, "duplicate_risk_key"))
    /\ [][/\ KeysKept(schema.questions, schema'.questions, "save_question", schema_op')
          /\ KeysKept(schema.risks, schema'.risks, "save_risk", schema_op')
          /\ Repeats(schema'.questions) <= Repeats(schema.questions)
          /\ Repeats(schema'.risks) <= Repeats(schema.risks)
          /\ (schema_op'.name = "add_question"
                 /\ \E i \in 1..Len(schema.questions) : KeyIs(schema.questions[i], schema_op'.new_key))
             => (schema' = schema
                    /\ report' = <<Err("question_key_exists", schema_op'.new_key, "")>>)
          /\ (schema_op'.name = "add_risk"
                 /\ \E i \in 1..Len(schema.risks) : KeyIs(schema.risks[i], schema_op'.new_key))
             => (schema' = schema
                    /\ report' = <<Err("risk_key_exists", schema_op'.new_key, "")>>)
         ]_vars

\* the form that adds a question has refused the key a, which two questions
\* of the stored schema already share
C19_Witness ==
    /\ schema_op = Op("add_question", "", "a")
    /\ report = <<Err("question_key_exists", "a", "")>>
    /\ KeyCount(schema.questions, "a") = 2

\* the clauses of the rule r that referenced old_key reference new_key in r2,
\* the other clauses reference the field they referenced, and a rule without
\* a reference to old_key is left as it was
FieldsRenamed(r, r2, old_key, new_key) ==
    /\ iter_rule_fields(r2) =
          [i \in 1..Len(iter_rule_fields(r)) |->
              IF iter_rule_fields(r)[i] = old_key THEN new_key ELSE iter_rule_fields(r)[i]]
    /\ old_key \notin FieldsAnywhere(r) => r2 = r

\* the rules under attr of the items, but for the item at index skip, are
\* renamed
RulesRenamed(before, after, attr, skip, old_key, new_key) ==
    /\ Len(after) = Len(before)
    /\ \A i \in (1..Len(before)) \ {skip} :
          /\ (attr \in DOMAIN before[i]) = (attr \in DOMAIN after[i])
          /\ attr \in DOMAIN before[i] =>
                FieldsRenamed(before[i][attr], after[i][attr], old_key, new_key)

\* C20: rename propagation -- after the key of a question is renamed from old
\* to new (old # new), every clause of the show_if of every question and of
\* the logic of every risk that referenced old references new, no clause
\* references old any more, and every clause that referenced another key is
\* unchanged.  (The show_if of the renamed question itself is the rule typed
\* into its form.)
C20_RenamePropagation ==
    [][(/\ schema_op'.name = "save_question"
        /\ schema_op'.key # schema_op'.new_key
        /\ report' = <<>>)
       => /\ KeyIs(schema'.questions[FirstWithKey(schema.questions, schema_op'.key)],
                   schema_op'.new_key)
          /\ RulesRenamed(schema.questions, schema'.questions, "show_if",
                          FirstWithKey(schema.questions, schema_op'.key),
                          schema_op'.key, schema_op'.new_key)
          /\ RulesRenamed(schema.risks, schema'.risks, "logic", 0,
                          schema_op'.key, schema_op'.new_key)
          /\ \A r \in RulesOf(schema'.questions, "show_if") \cup RulesOf(schema'.risks, "logic") :
                schema_op'.key \notin FieldsAnywhere(r)
      ]_vars

\* question a was renamed to c: the nested show_if of question b and the
\* nested logic of risk r1, which referenced a, b and zz, reference c, b and zz
C20_Witness ==
    /\ schema_op = Op("save_question", "a", "c")
    /\ report = <<>>
    /\ \E i \in 1..Len(schema.questions) :
          /\ KeyIs(schema.questions[i], "b")
          /\ "show_if" \in DOMAIN schema.questions[i]
          /\ iter_rule_fields(schema.questions[i].show_if) = <<"c", "b", "zz">>
    /\ \E i \in 1..Len(schema.risks) :
          /\ "logic" \in DOMAIN schema.risks[i]
          /\ iter_rule_fields(schema.risks[i].logic) = <<"c", "b", "zz">>

RawBody(key) ==
    IF "questionnaires" \in DOMAIN raw_doc.val
    THEN (IF raw_doc.val.questionnaires.type = "dict"
             /\ key \in DOMAIN raw_doc.val.questionnaires.val
             /\ raw_doc.val.questionnaires.val[key].type = "dict"
          THEN raw_doc.val.questionnaires.val[key].val ELSE EmptyDict)
    ELSE IF key \in DOMAIN raw_doc.val /\ raw_doc.val[key].type = "dict"
    THEN (IF "questionnaire" \in DOMAIN raw_doc.val[key].val
          THEN raw_doc.val[key].val.questionnaire.val ELSE raw_doc.val[key].val)
    ELSE raw_doc.val

\* the raw value under k when it has the type, else the default
RawOrDefault(body, k, type, default) ==
    IF k \in DOMAIN body /\ body[k].type = type THEN body[k] ELSE default

\* C22: normalization defaults -- for every raw payload the label of the
\* normalized questionnaire is the payload's own label when non-blank, else
\* the page title when non-blank, else the title-cased key, else
\* "Questionnaire"; page, questions and risks are present and are the raw
\* value, or {} / [] / [] when the raw value is missing or of the wrong type.
C22_NormalizationDefaults ==
    (schema_op = "normalized" /\ raw_doc.type = "dict") =>
        \A key \in DOMAIN report.val :
            /\ {"label", "page", "questions", "risks"} \subseteq DOMAIN report.val[key].val
            /\ report.val[key].val.label = _derive_label(key, RawBody(key))
            /\ report.val[key].val.page =
                  RawOrDefault(RawBody(key), "page", "dict", DictObj(EmptyDict))
            /\ report.val[key].val.questions =
                  RawOrDefault(RawBody(key), "questions", "list", ListObj(<<>>))
            /\ report.val[key].val.risks =
                  RawOrDefault(RawBody(key), "risks", "list", ListObj(<<>>))

RECURSIVE ResolvedRisks(_, _)
\* the normalised risks of the submissions from submission i on, in submission
\* order, each with the system it is resolved to
ResolvedRisks(assessments, i) ==
    IF i > Len(assessments) THEN <<>>
    ELSE [r \in 1..Len(assessments[i].risks) |->
             [risk |-> RiskRecord(assessments[i].risks[r]),
              system |-> ResolvedSystem(RiskRecord(assessments[i].risks[r]),
                                        CleanText(assessments[i], "system_id"),
                                        Strip(raw_doc.system_id))]]
         \o ResolvedRisks(assessments, i + 1)

\* the risk is not recorded for another system than the one asked for
ForTarget(c) ==
    ~(Strip(raw_doc.system_id) # <<>> /\ c.system # <<>> /\ c.system # Strip(raw_doc.system_id))

\* the risks that are not left out, in submission order
KeptCandidates == SelectSeq(ResolvedRisks(raw_doc.assessments, 1), ForTarget)

\* the dedup keys of the candidates
KeysOfCandidates(candidates) ==
    [i \in 1..Len(candidates) |-> DedupKey(candidates[i].risk, candidates[i].system)]

\* the positions of the first occurrences of the keys
FirstOccurrences(keys) ==
    {i \in 1..Len(keys) : \A g \in 1..(i - 1) : keys[g] # keys[i]}

\* C23: aggregate_risks_for_system returns, in order of first occurrence,
\* exactly one entry per distinct key (risk key or else name, level, resolved
\* system) -- entries recorded for another system than the one asked for are
\* left out, and of several entries with the same key the first one met in
\* submission order is kept.
C23_FirstOccurrencePerKey ==
    schema_op = "aggregated" =>
        \E candidates \in {KeptCandidates} :
        \E firsts \in {FirstOccurrences(KeysOfCandidates(candidates))} :
            /\ Len(report) = Cardinality(firsts)
            /\ \A e \in 1..Len(report) :
                  \E f \in firsts :
                      /\ Cardinality({g \in firsts : g < f}) = e - 1
                      /\ report[e] = RiskCopy(candidates[f].risk, candidates[f].system)
            /\ \A e \in 1..Len(report) :
                  (Strip(raw_doc.system_id) # <<>> /\ "system_id" \in DOMAIN report[e])
                  => report[e].system_id = Strip(raw_doc.system_id)

\* system al was asked for: of the two entries r1 of its submission the first
\* is returned, and the entry of system be is left out
C23_Witness ==
    /\ schema_op = "aggregated"
    /\ raw_doc.system_id = <<" ", "a", "l">>
    /\ raw_doc.assessments =
          <<[system_id |-> Alpha,
             risks |-> <<[key |-> R1, level |-> High, name |-> One],
                         [key |-> R1, level |-> High, name |-> <<"T", "w", "o">>]>>],
            [system_id |-> Beta, risks |-> <<[key |-> R1, level |-> High, name |-> One]>>]>>
    /\ report = <<[name |-> One, level |-> High, level_label |-> <<"H", "i", "g", "h">>,
                   key |-> R1, system_id |-> Alpha]>>

\* the raw payload of the form keeps its questionnaire under `questionnaire`
RawIsNested(raw) ==
    raw # Absent /\ "questionnaire" \in DOMAIN raw.val /\ raw.val.questionnaire.type = "dict"

\* the risks that a stored dict carries
RisksOf(d) == Get(d.val, "risks", Absent)

KeysStored(d, kind) ==
    IF d.type = "dict" /\ kind \in DOMAIN d.val /\ d.val[kind].type = "list"
    THEN KeysIn(d.val[kind]) ELSE {}

\* C25: a deletion lasts -- a question or risk deleted in the editor and not
\* added again is absent from the active questionnaire at the end of every
\* later run of the page and from the payload that Publish or Save as Draft
\* writes.
C25_DeletionLasts ==
    \A d \in schema_op.deleted :
        /\ ActiveForm(schema) = d.form_key => d.key \notin KeysStored(schema, d.kind)
        /\ (report.written \in {"published", "draft"} /\ report.form_key = d.form_key)
             => d.key \notin KeysStored(report.questionnaire, d.kind)

\* the question as the run of "Clear all rules" leaves it, before the run
\* that _rerun_app() starts
AfterClear ==
    render_question_editor([show_if |-> schema_rules.show_if,
                            state |-> builder_state.show_if,
                            json_text |-> json_text,
                            json_override |-> json_override],
                           [name |-> "clear"])

\* C26: "Clear all rules" removes every rule group -- right after the action
\* the question has no show_if, and after the rerun that follows the builder
\* shows no group and combines with `all`.
C26_ClearRemovesEveryGroup ==
    [][ClickClear("show_if") =>
          /\ AfterClear.show_if = EmptyDict
          /\ schema_rules'.show_if = EmptyDict
          /\ builder_state'.show_if.groups = <<>>
          /\ builder_state'.show_if.combine_mode = "all"]_vars

\* the rule that a builder state stands for
RuleOfState(state) == _groups_to_rule(state.groups, state.combine_mode)

\* the last run rendered the builder of the kind on a supported rule
RenderedSupported(kind) ==
    builder_state[kind] # EmptyDict /\ ~builder_state[kind].unsupported

\* the actions of the builder of the question on its selected group
GroupActions ==
    {[name |-> "delete_group"], [name |-> "save_group"], [name |-> "clear"],
     [name |-> "add_group"], [name |-> "remove_clause", idx |-> 0]}
    \cup {[name |-> "set_mode", mode |-> mode] : mode \in {"all", "any"}}
    \cup {[name |-> "add_clause", clause |-> clause] : clause \in NewClauses}

\* the question as the run of a builder action leaves it, before any run
\* that _rerun_app() starts
AfterAction(ev) ==
    render_question_editor([show_if |-> schema_rules.show_if,
                            state |-> builder_state.show_if,
                            json_text |-> json_text,
                            json_override |-> json_override], ev)

\* C27: the builder and the schema never diverge -- at the end of every run
\* in which a builder rendered a supported rule, and after every builder
\* action, the show_if of the question (the logic of the risk) is the rule of
\* the groups and the combine mode of the stored builder state; no rule
\* counts as the empty rule.
C27_BuilderMatchesSchema ==
    /\ \A kind \in {"show_if", "logic"} :
          RenderedSupported(kind) => schema_rules[kind] = RuleOfState(builder_state[kind])
    /\ GroupShown("show_if") =>
          \A ev \in GroupActions :
              AfterAction(ev).show_if = RuleOfState(AfterAction(ev).state)

\* C28: Publish never overwrites an upstream version that the session has
\* not seen -- handle_publish writes only over a version that the session
\* loaded or published itself, and a publish that was rejected is rejected
\* again when it is retried without a reload.
C28_PublishOnlyOverSeen ==
    [][HandlePublish =>
          /\ report'.outcome = "published" => report'.known
          /\ (report.outcome = "rejected" /\ schema_op = "publish")
               => report'.outcome = "rejected"]_vars

\* the keys of the items of a list are pairwise distinct
KeysDistinct(items) ==
    \A i, j \in 1..Len(items) :
        (i # j /\ HasKey(items[i]) /\ HasKey(items[j])) => items[i].key # items[j].key

\* the last form was refused because its key is the key of another entry
KeyRefused(errors) ==
    \E i \in 1..Len(errors) : errors[i].kind \in {"question_key_exists", "risk_key_exists"}

\* C29: question keys and risk keys stay pairwise distinct -- from a
\* questionnaire whose question keys and risk keys are pairwise distinct,
\* adding, saving or renaming, deleting and moving questions and risks leave
\* them pairwise distinct, and an add or a rename to a key that another entry
\* holds is refused and leaves the schema as it was.
C29_KeysStayDistinct ==
    [][(KeysDistinct(schema.questions) /\ KeysDistinct(schema.risks)) =>
          /\ KeysDistinct(schema'.questions)
          /\ KeysDistinct(schema'.risks)
          /\ \A key \in TypedKeys : KeysDistinct(items_without(schema'.questions, key))
          /\ \A key \in TypedRiskKeys : KeysDistinct(items_without(schema'.risks, key))
          /\ \A key \in TypedKeys \ {""} :
                (schema_op'.name \in {"add_question", "save_question"}
                 /\ schema_op'.new_key = key /\ schema_op'.key # key
                 /\ key \in seen_keys(schema.questions))
                  => (KeyRefused(report') /\ schema' = schema)
          /\ \A key \in TypedRiskKeys \ {""} :
                (schema_op'.name \in {"add_risk", "save_risk"}
                 /\ schema_op'.new_key = key /\ schema_op'.key # key
                 /\ key \in seen_keys(schema.risks))
                  => (KeyRefused(report') /\ schema' = schema)]_vars

\* a risk was to be renamed to the key of another risk and was left as it
\* was, in a questionnaire with distinct keys
C29_Witness ==
    /\ schema_op.name = "save_risk"
    /\ schema_op.key # schema_op.new_key
    /\ KeyRefused(report)
    /\ Len(schema.risks) = 2
    /\ KeysDistinct(schema.risks)
    /\ KeysDistinct(schema.questions)
    /\ Len(schema.questions) >= 2

\* C30: after a full render pass over the questions, in any order and with
\* any dependencies between them, the answer map holds no answer for a
\* question whose show_if is false against that answer map.
C30_NoAnswerForHiddenQuestion ==
    schema_op # "opened" =>
        \A i \in 1..Len(schema.questions) :
            ~should_show_question(schema.questions[i], answers)
                => schema.questions[i].key \notin DOMAIN answers

====
